---- MODULE Spec2Model ----
(***************************************************************************)
(* The peer-to-peer message service of go-nitro                            *)
(* (node/engine/messageservice/p2p-message-service/service.go): the        *)
(* address -> peer id directory, the peer-info exchange, Send with its     *)
(* connect-retry loop, and the start-up of the DHT discovery with its      *)
(* wait for boot-peer connections.                                          *)
(***************************************************************************)
EXTENDS Integers, Sequences, FiniteSets, Bags, TLC

(***************************************************************************)
(* Program constants.                                                      *)
(***************************************************************************)
NUM_CONNECT_ATTEMPTS == 10
BUFFER_SIZE == 1000

(***************************************************************************)
(* Bounds of the model.                                                    *)
(***************************************************************************)
MaxSends == 2        \* calls of Send
MaxConnects == 1     \* connections the network makes, beyond the boot dials
MaxInbound == 1      \* peer-info exchanges begun from outside: frames written
                     \* by remote peers, peers found by mDNS, sendPeerInfo
                     \* called with expectResponse = true
MaxTicks == 1        \* polls of the boot-peer wait that find too few peers
MaxStreams == 2      \* streams opened to a node on the message protocol
MaxTaken == 2        \* messages the engine takes from Out()
MaxLen == 2          \* characters of an ObjectiveId
MaxTime == 2         \* seconds of the clock
MaxPuts == 1         \* records that remote peers put in the DHT
MaxAllocations == 2  \* allocations of an outcome that is transferred
MaxAmount == 2       \* the greatest amount and the greatest holdings
MaxPerms == 2        \* entries of the permission list of a token

(***************************************************************************)
(* The nodes that run this service, the remote peers that do not, and the  *)
(* identities of both.                                                     *)
(***************************************************************************)
Nodes == {"n1", "n2"}
Remotes == {"x1"}
PeerIds == Nodes \cup Remotes
NoPeer == "none"

Address(p) == IF p = "n1" THEN "a1" ELSE IF p = "n2" THEN "a2" ELSE "ax"
Addrs == {Address(p) : p \in PeerIds}

\* the node whose engine calls Send, and the connections the network can make
Callers == {"n1"}
Links == { {"n1", "n2"}, {"n1", "x1"} }

\* peerExchangeMessage, as decoded from one frame
PeerExchangeMessages ==
    [Id : PeerIds, Address : Addrs, ExpectResponse : BOOLEAN]

\* the seconds of the clock
Times == 1..MaxTime

\* dhtData: what a record says
DhtData == [SCAddr : Addrs, PeerID : PeerIds, Timestamp : Times]

\* the transport key of a peer, and the peer id that is derived from a key
Key(p) == <<"key", p>>
Id(key) == key[2]

\* a faulty variant, which the property of the validator must tell from the
\* code: a signature that does not cover the timestamp
Sign_WithoutTimestamp(key, data) ==
    [signer |-> key, data |-> [data EXCEPT !.Timestamp = 0]]

\* line 215: `ms.key.Sign(recordDataBytes)`, a signature that only the key
\* makes and that holds for these bytes only
Sign(key, data) == [signer |-> key, data |-> data]

\* the public key of the peer id verifies the signature over the data
Verify(peerId, data, signature) ==
    /\ Id(signature.signer) = peerId
    /\ signature.data = data

\* dhtRecord: the data and the signature
DhtRecord(data, signature) == [Data |-> data, Signature |-> signature]

NoData == [SCAddr |-> NoPeer, PeerID |-> NoPeer, Timestamp |-> 0]
NoRecord == DhtRecord(NoData, Sign(Key(NoPeer), NoData))

\* a faulty variant, which the property of the published record must tell
\* from the code: a record without the time of its making
OwnRecord_Undated(p, t) ==
    LET recordData == [SCAddr |-> Address(p), PeerID |-> p, Timestamp |-> 0]
    IN  DhtRecord(recordData, Sign(Key(p), recordData))

\* lines 205-223: the record a peer makes of itself at time t
OwnRecord(p, t) ==
    LET recordData == [SCAddr |-> Address(p), PeerID |-> Id(Key(p)),
                       Timestamp |-> t]
    IN  DhtRecord(recordData, Sign(Key(p), recordData))

\* stateChannelAddrToPeerIDValidator.Validate: the signature verifies
\* against the peer id the record names
Validate(key, value) ==
    Verify(value.Data.PeerID, value.Data, value.Signature)

\* stateChannelAddrToPeerIDValidator.Select: the place of the record with
\* the greatest timestamp, the first of them if there are several
Select(key, values) ==
    CHOOSE i \in 1..Len(values) :
        /\ \A j \in 1..Len(values) :
              values[j].Data.Timestamp <= values[i].Data.Timestamp
        /\ \A j \in 1..(i - 1) :
              values[j].Data.Timestamp < values[i].Data.Timestamp

\* dht.PutValue: the record is validated and stored, unless the DHT holds
\* one that Select puts before it
PutValue(d, key, value) ==
    IF ~Validate(key, value) THEN [dht |-> d, err |-> "invalid"]
    ELSE IF d[key] # NoRecord /\ Select(key, <<value, d[key]>>) # 1
    THEN [dht |-> d, err |-> "older"]
    ELSE [dht |-> [d EXCEPT ![key] = value], err |-> "nil"]

\* what the DHT holds under DHT_RECORD_PREFIX + address: nothing, or a
\* record that the validator has let in
DhtValues ==
    {NoRecord} \cup
    {DhtRecord(data, Sign(Key(data.PeerID), data)) : data \in DhtData}

\* the DHT as the constructed services find it: the remote peer has
\* published its record
DhtAtFirst == [a \in Addrs |-> IF a = "ax" THEN OwnRecord("x1", 1)
                                           ELSE NoRecord]

\* the boot-peer lists a node may be configured with
BootLists(n) ==
    LET other == CHOOSE m \in Nodes : m # n
    IN  IF n = "n1" THEN { <<>>, <<other>>, <<other, "x1">> }
                    ELSE { <<other>> }

VARIABLES
    useMdns,      \* NewMessageService argument useMdnsPeerDiscovery
    bootPeers,    \* NewMessageService argument bootPeers
    phase,        \* position of NewMessageService / setupDht, per node
    bootIdx,      \* addBootPeers: boot peers dialled so far
    ticks,        \* polls of the wait that found too few peers
    published,    \* calls of addScaddrDhtRecord made in setupDht
    peers,        \* ms.peers: address -> peer id
    newPeerInfo,  \* ms.newPeerInfo channel
    emitted,      \* basicPeerInfo values ever pushed, per node and address
    connected,    \* p2pHost.Network().Peers()
    frames,       \* peer-info frames written and not yet read (a bag)
    notifying,    \* receivePeerInfo handlers at `ms.newPeerInfo <- peerInfo`
    goSend,       \* sendPeerInfo calls started and not yet run (a bag)
    handled,      \* peer-info frames read by receivePeerInfo (a bag)
    replyCalls,   \* sendPeerInfo calls run for a reply, per node
    dht,          \* the DHT records under DHT_RECORD_PREFIX, by address
    resolved,     \* addresses a node has cached from the DHT
    send,         \* the frame of the node's Send call
    msgStreams,   \* message streams opened to a node and not yet read (a bag)
    pushing,      \* msgStreamHandler calls at `ms.toEngine <- m` (a bag)
    toEngine,     \* ms.toEngine channel
    msgStats,     \* what the message handlers of a node have read and pushed
    closeState,   \* what Close has returned and taken down, per node
    framing,      \* one value written to a stream, read and decoded
    now,          \* time.Now().Unix()
    checked,      \* the last call of the record validator, and its result
    transfer,     \* one call of ComputeTransferEffectsAndInteractions
    auth,         \* one call of checkTokenValidity, and its result
    used          \* how much of the bounds is used

vars == << useMdns, bootPeers, phase, bootIdx, ticks, published, peers,
           newPeerInfo, emitted, connected, frames, notifying, goSend,
           handled, replyCalls, dht, resolved, send, msgStreams, pushing,
           toEngine, msgStats, closeState, framing, now, checked, transfer,
           auth, used >>

inboundVars == << msgStreams, pushing, toEngine, msgStats >>
startupVars == << phase, bootIdx, ticks, published >>
configVars == << useMdns, bootPeers >>
exchangeVars == << frames, notifying, goSend, handled, replyCalls >>
directoryVars == << peers, newPeerInfo, emitted >>
pureVars == << framing, now, checked, transfer, auth >>

(***************************************************************************)
(* safesync.Map: Load, Store and LoadOrStore on one node's map.            *)
(***************************************************************************)
Load(m, key) == [value |-> m[key], ok |-> m[key] # NoPeer]

Store(m, key, value) == [m EXCEPT ![key] = value]

\* the map afterwards, and whether the key was present
LoadOrStore(m, key, value) ==
    IF m[key] # NoPeer
    THEN [map |-> m, actual |-> m[key], loaded |-> TRUE]
    ELSE [map |-> [m EXCEPT ![key] = value], actual |-> value, loaded |-> FALSE]

(***************************************************************************)
(* Start-up positions.                                                     *)
(***************************************************************************)
\* libp2p.New has returned: the host listens and can be dialled
HostOpen(n) ==
    phase[n] \in {"host", "discovery", "addBootPeers", "waiting", "ready"}

\* a faulty variant, which the property of the handlers must tell from the
\* code: the handlers installed after the discovery is set up
HandlersInstalled_Late(n) == phase[n] = "ready"

\* lines 109-110 have run: both stream handlers are installed
HandlersInstalled(n) ==
    phase[n] \in {"discovery", "addBootPeers", "waiting", "ready"}

\* the ConnectedF notification of setupDht is registered
NotifyInstalled(n) ==
    phase[n] \in {"addBootPeers", "waiting", "ready"} /\ ~useMdns[n]

\* NewMessageService has returned the service to its caller
Ready(n) == phase[n] = "ready"

\* line 140: the mDNS service is started and may call HandlePeerFound
MdnsStarted(n) == useMdns[n] /\ Ready(n)

\* serialized messages, and what a reader finds on a message stream: a
\* delimited record with a message or with something else, the end of file,
\* or another read error
DELIMITER == "\n"

\* the characters an ObjectiveId is made of: two plain ones, the two that
\* JSON escapes in every string, and the line feed
Chars == {"a", "n", "\\", "\"", DELIMITER}
Strings == UNION {[1..k -> Chars] : k \in 0..MaxLen}

\* protocols.Message, with its To and its ObjectiveId
AllMessages == [To : Addrs, ObjectiveId : Strings]

\* a faulty variant, which the property of the framing must tell from the
\* code: an encoder that writes every character as it is
EscapeChar_Raw(c) == <<c>>

\* encoding/json, as json.Marshal writes one character of a string
EscapeChar(c) ==
    CASE c = DELIMITER -> <<"\\", "n">>
      [] c = "\\" -> <<"\\", "\\">>
      [] c = "\"" -> <<"\\", "\"">>
      [] OTHER -> <<c>>

RECURSIVE EncodeString(_)
EncodeString(str) ==
    IF str = <<>> THEN <<>>
    ELSE EscapeChar(Head(str)) \o EncodeString(Tail(str))

\* encoding/json, as json.Unmarshal reads a string after its opening quote:
\* the string, what follows its closing quote, and whether it is well formed
RECURSIVE DecodeString(_, _)
DecodeString(cs, acc) ==
    LET fail == [ok |-> FALSE, str |-> acc, rest |-> <<>>]
    IN  IF cs = <<>> THEN fail
        ELSE IF Head(cs) = "\"" THEN [ok |-> TRUE, str |-> acc,
                                      rest |-> Tail(cs)]
        ELSE IF Head(cs) = DELIMITER THEN fail
        ELSE IF Head(cs) = "\\"
        THEN IF Len(cs) < 2 THEN fail
             ELSE IF cs[2] \in {"\\", "\""}
             THEN DecodeString(Tail(Tail(cs)), Append(acc, cs[2]))
             ELSE IF cs[2] = "n"
             THEN DecodeString(Tail(Tail(cs)), Append(acc, DELIMITER))
             ELSE fail
        ELSE DecodeString(Tail(cs), Append(acc, Head(cs)))

\* json.Unmarshal skips the white space after the value
RECURSIVE TrimSpace(_)
TrimSpace(raw) ==
    IF raw # <<>> /\ raw[Len(raw)] = DELIMITER
    THEN TrimSpace(SubSeq(raw, 1, Len(raw) - 1))
    ELSE raw

\* Message.Serialize: json.Marshal of the message
Serialize(m) ==
    <<"{", m.To, "\"">> \o EncodeString(m.ObjectiveId) \o <<"\"", "}">>

\* what the writers put on a stream: `raw + string(DELIMITER)`
Framed(raw) == Append(raw, DELIMITER)

\* bufio.Reader.ReadString: the bytes up to the first delimiter and with it,
\* or all there is and io.EOF
ReadString(buf, delim) ==
    LET at == {i \in 1..Len(buf) : buf[i] = delim}
    IN  IF at = {} THEN [raw |-> buf, err |-> "EOF", rest |-> <<>>]
        ELSE LET i == CHOOSE k \in at : \A j \in at : k <= j
             IN  [raw |-> SubSeq(buf, 1, i), err |-> "nil",
                  rest |-> SubSeq(buf, i + 1, Len(buf))]

\* the messages that are sent to the nodes
Msg1 == [To |-> "a1", ObjectiveId |-> <<"a">>]
Msg2 == [To |-> "a1", ObjectiveId |-> <<DELIMITER>>]
Messages == {Msg1, Msg2}
StreamInputs ==
    {[raw |-> Serialize(m), err |-> "nil"] : m \in Messages}
    \cup {[raw |-> <<"garbage">>, err |-> "nil"],
          [raw |-> <<>>, err |-> "EOF"],
          [raw |-> <<>>, err |-> "reset"]}

NoStats ==
    [initial |-> 0, read |-> EmptyBag, pushed |-> EmptyBag, taken |-> 0]

\* no message stream has been opened, ms.toEngine is empty
InboundIdle ==
    /\ msgStreams = EmptyBag
    /\ pushing = EmptyBag
    /\ toEngine = [n \in Nodes |-> <<>>]
    /\ msgStats = [n \in Nodes |-> NoStats]

\* the parts of a service that Close is to take down
Resources ==
    {"transport", "msgHandler", "peerInfoHandler", "mdns", "dht", "notifiee"}

NotClosed == [called |-> FALSE, result |-> "none", removed |-> {}]

NoFraming == [pc |-> "idle"]
NoCheck == [pc |-> "idle"]
NoTransfer == [pc |-> "idle"]
NoAuth == [pc |-> "idle"]

\* nothing has been framed, the clock is at its first second and the
\* validator has not been called
PureIdle ==
    /\ framing = NoFraming
    /\ now = 1
    /\ checked = NoCheck
    /\ transfer = NoTransfer
    /\ auth = NoAuth

NothingUsed ==
    [sends |-> 0, connects |-> 0, inbound |-> 0, streams |-> 0, taken |-> 0,
     puts |-> 0]

NoSend ==
    [pc |-> "idle", to |-> NoPeer, found |-> FALSE, peerId |-> NoPeer,
     i |-> 0, opens |-> 0, sleeps |-> 0, writes |-> 0, opened |-> FALSE,
     delivered |-> FALSE, closed |-> FALSE, lookups |-> 0, result |-> "none"]

Init ==
    /\ useMdns \in [Nodes -> BOOLEAN]
    /\ bootPeers \in {b \in [Nodes -> UNION {BootLists(n) : n \in Nodes}] :
                        \A n \in Nodes :
                            /\ b[n] \in BootLists(n)
                            /\ useMdns[n] => b[n] = <<>>}
    /\ phase = [n \in Nodes |-> "new"]
    /\ bootIdx = [n \in Nodes |-> 0]
    /\ ticks = [n \in Nodes |-> 0]
    /\ published = [n \in Nodes |-> 0]
    /\ peers = [n \in Nodes |-> [a \in Addrs |-> NoPeer]]
    /\ newPeerInfo = [n \in Nodes |-> <<>>]
    /\ emitted = [n \in Nodes |-> [a \in Addrs |-> 0]]
    /\ connected = [n \in Nodes |-> {}]
    /\ frames = EmptyBag
    /\ notifying = EmptyBag
    /\ goSend = EmptyBag
    /\ handled = EmptyBag
    /\ replyCalls = [n \in Nodes |-> 0]
    /\ dht = DhtAtFirst
    /\ resolved = [n \in Nodes |-> {}]
    /\ send = [n \in Nodes |-> NoSend]
    /\ InboundIdle
    /\ closeState = [n \in Nodes |-> NotClosed]
    /\ PureIdle
    /\ used = NothingUsed

\* NewMessageService has returned on both nodes: n1 in either mode and
\* without boot peers; n2 with n1 as its boot peer, its wait over and its
\* record published or not (PutValue may have failed); the connections of
\* the start-up are closed again and their peer-info calls have run
InitSend ==
    /\ useMdns \in {[n \in Nodes |-> n = "n1" /\ b] : b \in BOOLEAN}
    /\ bootPeers = [n \in Nodes |-> IF n = "n1" THEN <<>> ELSE <<"n1">>]
    /\ phase = [n \in Nodes |-> "ready"]
    /\ bootIdx = [n \in Nodes |-> Len(bootPeers[n])]
    /\ ticks = [n \in Nodes |-> 0]
    /\ published = [n \in Nodes |-> IF n = "n1" THEN 0 ELSE 1]
    /\ peers = [n \in Nodes |-> [a \in Addrs |-> NoPeer]]
    /\ newPeerInfo = [n \in Nodes |-> <<>>]
    /\ emitted = [n \in Nodes |-> [a \in Addrs |-> 0]]
    /\ connected = [n \in Nodes |-> {}]
    /\ frames = EmptyBag
    /\ notifying = EmptyBag
    /\ goSend = EmptyBag
    /\ handled = EmptyBag
    /\ replyCalls = [n \in Nodes |-> 0]
    /\ dht \in {[DhtAtFirst EXCEPT !["a2"] = v] :
                  v \in {NoRecord, OwnRecord("n2", 1)}}
    /\ resolved = [n \in Nodes |-> {}]
    /\ send = [n \in Nodes |-> NoSend]
    /\ InboundIdle
    /\ closeState = [n \in Nodes |-> NotClosed]
    /\ PureIdle
    /\ used = NothingUsed

\* NewMessageService has returned on both nodes, each in either mode and
\* without boot peers
InitExchange ==
    /\ useMdns \in [Nodes -> BOOLEAN]
    /\ bootPeers = [n \in Nodes |-> <<>>]
    /\ phase = [n \in Nodes |-> "ready"]
    /\ bootIdx = [n \in Nodes |-> 0]
    /\ ticks = [n \in Nodes |-> 0]
    /\ published = [n \in Nodes |-> 0]
    /\ peers = [n \in Nodes |-> [a \in Addrs |-> NoPeer]]
    /\ newPeerInfo = [n \in Nodes |-> <<>>]
    /\ emitted = [n \in Nodes |-> [a \in Addrs |-> 0]]
    /\ connected = [n \in Nodes |-> {}]
    /\ frames = EmptyBag
    /\ notifying = EmptyBag
    /\ goSend = EmptyBag
    /\ handled = EmptyBag
    /\ replyCalls = [n \in Nodes |-> 0]
    /\ dht = DhtAtFirst
    /\ resolved = [n \in Nodes |-> {}]
    /\ send = [n \in Nodes |-> NoSend]
    /\ InboundIdle
    /\ closeState = [n \in Nodes |-> NotClosed]
    /\ PureIdle
    /\ used = NothingUsed

\* n1 is about to be constructed, in either mode and in DHT mode with n2 as
\* its boot peer; n2 is a constructed service in DHT mode
InitWire ==
    /\ useMdns \in {[n \in Nodes |-> n = "n1" /\ b] : b \in BOOLEAN}
    /\ bootPeers = [n \in Nodes |-> IF n = "n1" /\ ~useMdns[n] THEN <<"n2">>
                                                             ELSE <<>>]
    /\ phase = [n \in Nodes |-> IF n = "n1" THEN "new" ELSE "ready"]
    /\ bootIdx = [n \in Nodes |-> 0]
    /\ ticks = [n \in Nodes |-> 0]
    /\ published = [n \in Nodes |-> 0]
    /\ peers = [n \in Nodes |-> [a \in Addrs |-> NoPeer]]
    /\ newPeerInfo = [n \in Nodes |-> <<>>]
    /\ emitted = [n \in Nodes |-> [a \in Addrs |-> 0]]
    /\ connected = [n \in Nodes |-> {}]
    /\ frames = EmptyBag
    /\ notifying = EmptyBag
    /\ goSend = EmptyBag
    /\ handled = EmptyBag
    /\ replyCalls = [n \in Nodes |-> 0]
    /\ dht = DhtAtFirst
    /\ resolved = [n \in Nodes |-> {}]
    /\ send = [n \in Nodes |-> NoSend]
    /\ InboundIdle
    /\ closeState = [n \in Nodes |-> NotClosed]
    /\ PureIdle
    /\ used = NothingUsed

\* NewMessageService has returned on both nodes; the engine of n1 has left
\* none, all but one or all of the places of ms.toEngine filled
InitInbound ==
    /\ useMdns = [n \in Nodes |-> FALSE]
    /\ bootPeers = [n \in Nodes |-> <<>>]
    /\ phase = [n \in Nodes |-> "ready"]
    /\ bootIdx = [n \in Nodes |-> 0]
    /\ ticks = [n \in Nodes |-> 0]
    /\ published = [n \in Nodes |-> 0]
    /\ peers = [n \in Nodes |-> [a \in Addrs |-> NoPeer]]
    /\ newPeerInfo = [n \in Nodes |-> <<>>]
    /\ emitted = [n \in Nodes |-> [a \in Addrs |-> 0]]
    /\ connected = [n \in Nodes |-> {}]
    /\ frames = EmptyBag
    /\ notifying = EmptyBag
    /\ goSend = EmptyBag
    /\ handled = EmptyBag
    /\ replyCalls = [n \in Nodes |-> 0]
    /\ dht = DhtAtFirst
    /\ resolved = [n \in Nodes |-> {}]
    /\ send = [n \in Nodes |-> NoSend]
    /\ msgStreams = EmptyBag
    /\ pushing = EmptyBag
    /\ \E k \in {0, BUFFER_SIZE - 1, BUFFER_SIZE} :
          /\ toEngine = [n \in Nodes |->
                           IF n = "n1" THEN [i \in 1..k |-> Msg1] ELSE <<>>]
          /\ msgStats = [n \in Nodes |->
                           IF n = "n1" THEN [NoStats EXCEPT !.initial = k]
                                       ELSE NoStats]
    /\ closeState = [n \in Nodes |-> NotClosed]
    /\ PureIdle
    /\ used = NothingUsed

(***************************************************************************)
(* NewMessageService and the discovery set-up.                             *)
(***************************************************************************)
\* lines 79-108: the key is parsed and the host opened; a failure of either
\* panics
NewMessageService(n) ==
    /\ phase[n] = "new"
    /\ \/ phase' = [phase EXCEPT ![n] = "host"]
       \/ phase' = [phase EXCEPT ![n] = "panicked"]
    /\ UNCHANGED << configVars, bootIdx, ticks, published, directoryVars,
                    connected, exchangeVars, dht, resolved, send, used >>
    /\ UNCHANGED << inboundVars, closeState, pureVars >>

\* lines 109-122: the two stream handlers are installed and the host's
\* address is taken; AddrInfoToP2pAddrs may fail, which panics
SetStreamHandler(n) ==
    /\ phase[n] = "host"
    /\ \/ phase' = [phase EXCEPT ![n] = "discovery"]
       \/ phase' = [phase EXCEPT ![n] = "panicked"]
    /\ UNCHANGED << configVars, bootIdx, ticks, published, directoryVars,
                    connected, exchangeVars, dht, resolved, send, used >>
    /\ UNCHANGED << inboundVars, closeState, pureVars >>

setupMdns(n) ==
    /\ phase[n] = "discovery"
    /\ useMdns[n]
    /\ \/ phase' = [phase EXCEPT ![n] = "ready"]
       \/ phase' = [phase EXCEPT ![n] = "panicked"]
    /\ UNCHANGED << configVars, bootIdx, ticks, published, directoryVars,
                    connected, exchangeVars, dht, resolved, send, used >>
    /\ UNCHANGED << inboundVars, closeState, pureVars >>

\* lines 143-173 and, without boot peers, 194-200: the DHT client is made,
\* the notifications are registered, and with no boot peer configured the
\* DHT is bootstrapped at once
setupDht(n) ==
    /\ phase[n] = "discovery"
    /\ ~useMdns[n]
    /\ \/ phase' = [phase EXCEPT ![n] =
                       IF Len(bootPeers[n]) > 0 THEN "addBootPeers"
                                                ELSE "ready"]
       \/ \* dht.New or dht.Bootstrap returns an error
          phase' = [phase EXCEPT ![n] = "panicked"]
    /\ UNCHANGED << configVars, bootIdx, ticks, published, directoryVars,
                    connected, exchangeVars, dht, resolved, send, used >>
    /\ UNCHANGED << inboundVars, closeState, pureVars >>

\* a peer that can be dialled
Up(p) == IF p \in Nodes THEN HostOpen(p) ELSE TRUE

\* a peer that accepts a stream of the two protocols: the host refuses a
\* stream whose protocol has no handler
Serves(p) == IF p \in Nodes THEN HandlersInstalled(p) ELSE TRUE

\* the connection sets once n and p are connected
Connect(c, n, p) ==
    [q \in Nodes |-> IF q = n THEN c[q] \cup {p}
                     ELSE IF q = p THEN c[q] \cup {n}
                     ELSE c[q]]

\* a faulty variant, which the property of the notification must tell from
\* the code: a notification that sends the peer info twice
ConnectedF_Twice(n, p) ==
    LET t(a, b) == [node |-> a, to |-> b, expectResponse |-> FALSE,
                    origin |-> "connected"]
        once == (IF NotifyInstalled(n) THEN SetToBag({t(n, p)}) ELSE EmptyBag)
                (+)
                (IF p \in Nodes /\ NotifyInstalled(p)
                 THEN SetToBag({t(p, n)}) ELSE EmptyBag)
    IN  once (+) once

\* ConnectedF (lines 159-162) at both ends of a new connection between n and
\* p: `go ms.sendPeerInfo(conn.RemotePeer(), false)`
ConnectedF(n, p) ==
    (IF NotifyInstalled(n)
     THEN SetToBag({[node |-> n, to |-> p, expectResponse |-> FALSE,
                     origin |-> "connected"]})
     ELSE EmptyBag)
    (+)
    (IF p \in Nodes /\ NotifyInstalled(p)
     THEN SetToBag({[node |-> p, to |-> n, expectResponse |-> FALSE,
                     origin |-> "connected"]})
     ELSE EmptyBag)

\* lines 421-448: one turn of the loop of addBootPeers
addBootPeer(n) ==
    /\ phase[n] = "addBootPeers"
    /\ LET k == bootIdx[n] + 1
           p == bootPeers[n][k]
       IN  /\ bootIdx' = [bootIdx EXCEPT ![n] = k]
           /\ phase' = [phase EXCEPT ![n] =
                          IF k = Len(bootPeers[n]) THEN "waiting" ELSE @]
           /\ \/ \* Connect returns an error, which is logged
                  UNCHANGED << connected, goSend, used >>
              \/ \* Connect finds the peer connected already
                  /\ p \in connected[n]
                  /\ UNCHANGED << connected, goSend, used >>
              \/ \* Connect dials the peer
                  /\ p \notin connected[n]
                  /\ Up(p)
                  /\ connected' = Connect(connected, n, p)
                  /\ goSend' = goSend (+) ConnectedF(n, p)
                  /\ UNCHANGED used
    /\ UNCHANGED << configVars, ticks, published, directoryVars, frames,
                    notifying, handled, replyCalls, dht, resolved, send >>
    /\ UNCHANGED << inboundVars, closeState, pureVars >>

\* lines 203-236: the DHT after addScaddrDhtRecord, whose PutValue may fail
addScaddrDhtRecord(d, n, t) ==
    { PutValue(d, Address(n), OwnRecord(n, t)).dht, d }

\* a faulty variant, which the property of the wait must tell from the code:
\* a wait that any one connection ends
EnoughPeers_Any(actualPeers, expectedPeers) == actualPeers >= 1

\* line 184: `if actualPeers >= expectedPeers`
EnoughPeers(actualPeers, expectedPeers) == actualPeers >= expectedPeers

\* lines 174-200: one tick of the ticker; with enough peers the loop ends,
\* the record is published (line 191 drops the error) and the DHT is
\* bootstrapped
Tick(n) ==
    /\ phase[n] = "waiting"
    /\ LET expectedPeers == Len(bootPeers[n])
           actualPeers == Cardinality(connected[n])
       IN  \/ /\ EnoughPeers(actualPeers, expectedPeers)
              /\ published' = [published EXCEPT ![n] = @ + 1]
              /\ dht' \in addScaddrDhtRecord(dht, n, now)
              /\ \/ phase' = [phase EXCEPT ![n] = "ready"]
                 \/ \* dht.Bootstrap returns an error
                    phase' = [phase EXCEPT ![n] = "panicked"]
              /\ UNCHANGED ticks
           \/ /\ ~EnoughPeers(actualPeers, expectedPeers)
              /\ ticks[n] < MaxTicks
              /\ ticks' = [ticks EXCEPT ![n] = @ + 1]
              /\ UNCHANGED << phase, published, dht >>
    /\ UNCHANGED << configVars, bootIdx, directoryVars, connected,
                    exchangeVars, resolved, send, used >>
    /\ UNCHANGED << inboundVars, closeState, pureVars >>

(***************************************************************************)
(* Connections made and lost by the network.                               *)
(***************************************************************************)
Connected(n, p) ==
    /\ HostOpen(n)
    /\ {n, p} \in Links
    /\ Up(p)
    /\ p \notin connected[n]
    /\ used.connects < MaxConnects
    /\ connected' = Connect(connected, n, p)
    /\ goSend' = goSend (+) ConnectedF(n, p)
    /\ used' = [used EXCEPT !.connects = @ + 1]
    /\ UNCHANGED << configVars, startupVars, directoryVars, frames,
                    notifying, handled, replyCalls, dht, resolved, send >>
    /\ UNCHANGED << inboundVars, closeState, pureVars >>

Disconnected(n, p) ==
    /\ p \in connected[n]
    /\ connected' = [q \in Nodes |-> IF q = n THEN connected[q] \ {p}
                                      ELSE IF q = p THEN connected[q] \ {n}
                                      ELSE connected[q]]
    /\ UNCHANGED << configVars, startupVars, directoryVars, exchangeVars,
                    dht, resolved, send, used >>
    /\ UNCHANGED << inboundVars, closeState, pureVars >>

(***************************************************************************)
(* The peer-info exchange.                                                 *)
(***************************************************************************)
Task(n, to, expectResponse, origin) ==
    [node |-> n, to |-> to, expectResponse |-> expectResponse,
     origin |-> origin]

\* a delimited record on a peer-info stream to node `to`: the JSON of a
\* peerExchangeMessage, the JSON value null, or no JSON at all; `from` is
\* the peer at the other end of the stream, which for the frames that
\* sendPeerInfo writes is the peer the message names
Frame(to, msg) ==
    [to |-> to, from |-> msg.Id, json |-> "object", msg |-> msg]

NilMessage == [Id |-> NoPeer, Address |-> NoPeer, ExpectResponse |-> FALSE]

MalformedFrame(to, json) ==
    [to |-> to, from |-> NoPeer, json |-> json, msg |-> NilMessage]

\* the frame f on a stream that peer x has opened
FrameFrom(x, f) == [f EXCEPT !.from = x]

\* lines 238-244: mDNS has found peer p
HandlePeerFound(n, p) ==
    /\ MdnsStarted(n)
    /\ p # n
    /\ Up(p)
    /\ used.inbound < MaxInbound
    /\ used' = [used EXCEPT !.inbound = @ + 1]
    /\ goSend' = goSend (+) SetToBag({Task(n, p, FALSE, "found")})
    /\ UNCHANGED << configVars, startupVars, directoryVars, connected,
                    frames, notifying, handled, replyCalls, dht, resolved,
                    send >>
    /\ UNCHANGED << inboundVars, closeState, pureVars >>

\* sendPeerInfo(recipientId, true), the call that asks for a reply
sendPeerInfoExpectingResponse(n, p) ==
    /\ HostOpen(n)
    /\ p # n
    /\ used.inbound < MaxInbound
    /\ used' = [used EXCEPT !.inbound = @ + 1]
    /\ goSend' = goSend (+) SetToBag({Task(n, p, TRUE, "caller")})
    /\ UNCHANGED << configVars, startupVars, directoryVars, connected,
                    frames, notifying, handled, replyCalls, dht, resolved,
                    send >>
    /\ UNCHANGED << inboundVars, closeState, pureVars >>

\* NewStream to p can succeed
CanOpen(n, p) == p \in connected[n] /\ Serves(p)

\* lines 271-297: the body of sendPeerInfo, for one started call
sendPeerInfo(t) ==
    /\ BagIn(t, goSend)
    /\ HostOpen(t.node)
    /\ goSend' = goSend (-) SetToBag({t})
    /\ replyCalls' = [replyCalls EXCEPT ![t.node] =
                         IF t.origin = "reply" THEN @ + 1 ELSE @]
    /\ \/ \* NewStream or WriteString fails: logged, nothing is sent
          UNCHANGED frames
       \/ /\ CanOpen(t.node, t.to)
          /\ frames' =
                IF t.to \in Nodes
                THEN frames (+) SetToBag({Frame(t.to,
                         [Id |-> t.node, Address |-> Address(t.node),
                          ExpectResponse |-> t.expectResponse])})
                ELSE frames
    /\ UNCHANGED << configVars, startupVars, directoryVars, connected,
                    notifying, handled, dht, resolved, send, used >>
    /\ UNCHANGED << inboundVars, closeState, pureVars >>

\* the frames a remote peer may write to n: any peer id and any address but
\* n's own
RemoteMessages(n) ==
    [Id : PeerIds \ {n}, Address : Addrs \ {Address(n)},
     ExpectResponse : BOOLEAN]

RemoteFrames(n) ==
    {Frame(n, msg) : msg \in RemoteMessages(n)}
    \cup {MalformedFrame(n, json) : json \in {"null", "garbage"}}

\* remote peer x connects to n, unless it is connected, and writes a frame of
\* its own making on the peer-info protocol
RemoteFrame(n, x, f) ==
    /\ HandlersInstalled(n)
    /\ {n, x} \in Links
    /\ used.inbound < MaxInbound
    /\ used' = [used EXCEPT !.inbound = @ + 1]
    /\ frames' = frames (+) SetToBag({FrameFrom(x, f)})
    /\ connected' = Connect(connected, n, x)
    /\ goSend' = IF x \in connected[n] THEN goSend
                                         ELSE goSend (+) ConnectedF(n, x)
    /\ UNCHANGED << configVars, startupVars, directoryVars, notifying,
                    handled, replyCalls, dht, resolved, send >>
    /\ UNCHANGED << inboundVars, closeState, pureVars >>

\* three faulty variants, which the properties of the exchange must tell from
\* the code: a handler that overwrites the entry of a known address, one that
\* announces every peer it hears of, and one that answers in kind
StorePeer_Overwrite(m, msg) ==
    [map |-> Store(m, msg.Address, msg.Id), actual |-> msg.Id,
     loaded |-> m[msg.Address] # NoPeer]

IsNewPeer_Always(r) == TRUE

Reply_InKind(n, msg) ==
    SetToBag({[node |-> n, to |-> msg.Id,
               expectResponse |-> msg.ExpectResponse, origin |-> "reply"]})

\* line 324: the peer is entered in ms.peers unless its address is there
StorePeer(m, msg) == LoadOrStore(m, msg.Address, msg.Id)

\* line 325: `if !foundPeer`
IsNewPeer(r) == ~r.loaded

\* lines 331-333: the sendPeerInfo call that answers msg
Reply(n, msg) ==
    IF msg.ExpectResponse
    THEN SetToBag({Task(n, msg.Id, FALSE, "reply")})
    ELSE EmptyBag

\* lines 317-322: json.Unmarshal into `var msg *peerExchangeMessage`; the
\* JSON value null is no error and leaves msg nil
Unmarshal(f) ==
    [err |-> f.json = "garbage", nil |-> f.json # "object", msg |-> f.msg]

\* lines 300-325: receivePeerInfo up to the test of foundPeer
receivePeerInfo(f) ==
    /\ BagIn(f, frames)
    /\ HandlersInstalled(f.to)
    /\ frames' = frames (-) SetToBag({f})
    /\ handled' = handled (+) SetToBag({f})
    /\ LET n == f.to
           u == Unmarshal(f)
       IN  IF u.err
           THEN \* lines 319-322: logged, the handler returns
                UNCHANGED << phase, peers, notifying, goSend >>
           ELSE IF u.nil
           THEN \* line 324 reads msg.Address through the nil pointer
                /\ phase' = [phase EXCEPT ![n] = "panicked"]
                /\ UNCHANGED << peers, notifying, goSend >>
           ELSE LET r == StorePeer(peers[n], u.msg)
                IN  /\ peers' = [peers EXCEPT ![n] = r.map]
                    /\ IF IsNewPeer(r)
                       THEN /\ notifying' = notifying (+) SetToBag({f})
                            /\ UNCHANGED goSend
                       ELSE /\ goSend' = goSend (+) Reply(n, u.msg)
                            /\ UNCHANGED notifying
                    /\ UNCHANGED phase
    /\ UNCHANGED << configVars, bootIdx, ticks, published, newPeerInfo,
                    emitted, connected, replyCalls, dht, resolved, send,
                    used >>
    /\ UNCHANGED << inboundVars, closeState, pureVars >>

\* lines 326-333: the new peer is pushed on ms.newPeerInfo, then the reply
notifyNewPeer(f) ==
    /\ BagIn(f, notifying)
    /\ HandlersInstalled(f.to)
    /\ Len(newPeerInfo[f.to]) < BUFFER_SIZE
    /\ LET n == f.to
           msg == f.msg
       IN  /\ notifying' = notifying (-) SetToBag({f})
           /\ newPeerInfo' = [newPeerInfo EXCEPT ![n] =
                                 Append(@, [Id |-> msg.Id,
                                            Address |-> msg.Address])]
           /\ emitted' = [emitted EXCEPT ![n][msg.Address] = @ + 1]
           /\ goSend' = goSend (+) Reply(n, msg)
    /\ UNCHANGED << configVars, startupVars, peers, connected, frames,
                    handled, replyCalls, dht, resolved, send, used >>
    /\ UNCHANGED << inboundVars, closeState, pureVars >>

\* lines 416-419: the caller takes one value from PeerInfoReceived()
PeerInfoReceived(n) ==
    /\ Ready(n)
    /\ newPeerInfo[n] # <<>>
    /\ newPeerInfo' = [newPeerInfo EXCEPT ![n] = Tail(@)]
    /\ UNCHANGED << configVars, startupVars, peers, emitted, connected,
                    exchangeVars, dht, resolved, send, used >>
    /\ UNCHANGED << inboundVars, closeState, pureVars >>

(***************************************************************************)
(* The message handler and ms.toEngine.                                    *)
(***************************************************************************)
\* two faulty variants, which the properties of the message handler must
\* tell from the code: a decoder that takes any record for a message, and a
\* channel that takes a value whatever it holds
DeserializeMessage_Lenient(raw) ==
    [m |-> IF \E m \in Messages : Framed(Serialize(m)) = raw
           THEN CHOOSE m \in Messages : Framed(Serialize(m)) = raw
           ELSE Msg1,
     err |-> FALSE]

ChanSend_Unbounded(q, v) == [ok |-> TRUE, q |-> Append(q, v)]

\* protocols.DeserializeMessage: json.Unmarshal into a Message
DeserializeMessage(raw) ==
    LET t == TrimSpace(raw)
        fail == [m |-> "none", err |-> TRUE]
    IN  IF Len(t) >= 3 /\ t[1] = "{" /\ t[2] \in Addrs /\ t[3] = "\""
        THEN LET d == DecodeString(SubSeq(t, 4, Len(t)), <<>>)
             IN  IF d.ok /\ d.rest = <<"}">>
                 THEN [m |-> [To |-> t[2], ObjectiveId |-> d.str],
                       err |-> FALSE]
                 ELSE fail
        ELSE fail

\* `ms.toEngine <- m` on the channel made with BUFFER_SIZE places: the send
\* goes through when a place is free
ChanSend(q, v) == [ok |-> Len(q) < BUFFER_SIZE, q |-> Append(q, v)]

\* a peer opens a stream on PROTOCOL_ID to n and writes, or closes
MessageStream(n, in) ==
    /\ HandlersInstalled(n)
    /\ used.streams < MaxStreams
    /\ used' = [used EXCEPT !.streams = @ + 1]
    /\ msgStreams' = msgStreams (+) SetToBag({[to |-> n, in |-> in]})
    /\ UNCHANGED << configVars, startupVars, directoryVars, connected,
                    exchangeVars, dht, resolved, send, pushing, toEngine,
                    msgStats, closeState, pureVars >>

\* lines 246-265: the record is read and decoded
msgStreamHandler(st) ==
    /\ BagIn(st, msgStreams)
    /\ HandlersInstalled(st.to)
    /\ LET n == st.to
           d == DeserializeMessage(
                    ReadString(Framed(st.in.raw), DELIMITER).raw)
       IN  /\ msgStreams' = msgStreams (-) SetToBag({st})
           /\ msgStats' = [msgStats EXCEPT ![n].read =
                              @ (+) SetToBag({st.in})]
           /\ pushing' =
                 IF st.in.err = "nil" /\ ~d.err
                 THEN pushing (+) SetToBag({[to |-> n, m |-> d.m]})
                 ELSE pushing
    /\ UNCHANGED << configVars, startupVars, directoryVars, connected,
                    exchangeVars, dht, resolved, send, toEngine, closeState,
                    pureVars, used >>

\* line 266: the message goes on ms.toEngine and the handler returns
pushToEngine(h) ==
    /\ BagIn(h, pushing)
    /\ LET n == h.to
           c == ChanSend(toEngine[n], h.m)
       IN  /\ c.ok
           /\ toEngine' = [toEngine EXCEPT ![n] = c.q]
           /\ pushing' = pushing (-) SetToBag({h})
           /\ msgStats' = [msgStats EXCEPT ![n].pushed =
                              @ (+) SetToBag({h.m})]
    /\ UNCHANGED << configVars, startupVars, directoryVars, connected,
                    exchangeVars, dht, resolved, send, msgStreams,
                    closeState, pureVars, used >>

\* lines 398-401: the engine takes one message from Out()
Out(n) ==
    /\ Ready(n)
    /\ toEngine[n] # <<>>
    /\ used.taken < MaxTaken
    /\ used' = [used EXCEPT !.taken = @ + 1]
    /\ toEngine' = [toEngine EXCEPT ![n] = Tail(@)]
    /\ msgStats' = [msgStats EXCEPT ![n].taken = @ + 1]
    /\ UNCHANGED << configVars, startupVars, directoryVars, connected,
                    exchangeVars, dht, resolved, send, msgStreams, pushing,
                    closeState, pureVars >>

(***************************************************************************)
(* Send.                                                                   *)
(***************************************************************************)
Return(fr, result) == [fr EXCEPT !.pc = "done", !.result = result]

\* two faulty variants, which the properties of the lookup must tell from
\* the code: a lookup that invents a peer id where getPeerIdFromDht returns
\* an error, and one that returns the peer id without line 355
lookupError_Fallback(fr) == [fr EXCEPT !.pc = "loop", !.peerId = "x1"]

cachePeerId_Skipped(m, scaddr, peerId) == m

\* lines 339-341, 345-347, 350-352 and 374-376: the lookup has failed and
\* Send returns its error
lookupError(fr) == Return(fr, "ErrResolve")

\* line 355: `ms.peers.Store(scaddr, peerId)`
cachePeerId(m, scaddr, peerId) == Store(m, scaddr, peerId)

\* lines 362-376: the message is serialized and the peer id looked up
SendBegin(n, to) ==
    /\ Ready(n)
    /\ send[n].pc \in {"idle", "done"}
    /\ used.sends < MaxSends
    /\ used' = [used EXCEPT !.sends = @ + 1]
    /\ \/ \* msg.Serialize fails
          send' = [send EXCEPT ![n] =
                      Return([NoSend EXCEPT !.to = to], "ErrSerialize")]
       \/ LET l == Load(peers[n], to)
          IN  send' = [send EXCEPT ![n] =
                          [NoSend EXCEPT !.to = to,
                                         !.found = l.ok,
                                         !.peerId = l.value,
                                         !.pc = IF l.ok THEN "loop"
                                                        ELSE "dht"]]
    /\ UNCHANGED << configVars, startupVars, directoryVars, connected,
                    exchangeVars, dht, resolved >>
    /\ UNCHANGED << inboundVars, closeState, pureVars >>

\* lines 336-357, called at line 372
getPeerIdFromDht(n) ==
    /\ Ready(n)
    /\ send[n].pc = "dht"
    /\ LET fr == [send[n] EXCEPT !.lookups = @ + 1]
           scaddr == fr.to
       IN  \/ \* ms.dht is nil when mDNS is used: GetValue dereferences it
              /\ useMdns[n]
              /\ phase' = [phase EXCEPT ![n] = "panicked"]
              /\ send' = [send EXCEPT ![n] = [fr EXCEPT !.pc = "panicked"]]
              /\ UNCHANGED << peers, resolved >>
           \/ \* GetValue, json.Unmarshal or peer.Decode returns an error
              /\ ~useMdns[n]
              /\ send' = [send EXCEPT ![n] = lookupError(fr)]
              /\ UNCHANGED << phase, peers, resolved >>
           \/ \* the peer id is cached and returned
              /\ ~useMdns[n]
              /\ dht[scaddr] # NoRecord
              /\ LET recordData == dht[scaddr]
                     peerId == recordData.Data.PeerID
                 IN  /\ peers' = [peers EXCEPT ![n] =
                                     cachePeerId(@, scaddr, peerId)]
                     /\ send' = [send EXCEPT ![n] =
                                    [fr EXCEPT !.pc = "loop",
                                               !.peerId = peerId]]
              /\ resolved' = [resolved EXCEPT ![n] = @ \cup {scaddr}]
              /\ UNCHANGED phase
    /\ UNCHANGED << configVars, bootIdx, ticks, published, newPeerInfo,
                    emitted, connected, exchangeVars, dht, used >>
    /\ UNCHANGED << inboundVars, closeState, pureVars >>

\* lines 378-394: one turn of the loop
SendAttempt(n) ==
    /\ Ready(n)
    /\ send[n].pc = "loop"
    /\ send[n].i < NUM_CONNECT_ATTEMPTS
    /\ LET fr == [send[n] EXCEPT !.opens = @ + 1]
       IN  \/ \* NewStream fails: log, sleep, next turn
              send' = [send EXCEPT ![n] =
                          [fr EXCEPT !.sleeps = @ + 1, !.i = @ + 1]]
           \/ \* NewStream succeeds, WriteString fails
              /\ CanOpen(n, fr.peerId)
              /\ send' = [send EXCEPT ![n] =
                             Return([fr EXCEPT !.opened = TRUE,
                                               !.writes = @ + 1],
                                    "ErrWrite")]
           \/ \* NewStream succeeds, Flush fails: its error is dropped
              /\ CanOpen(n, fr.peerId)
              /\ send' = [send EXCEPT ![n] =
                             Return([fr EXCEPT !.opened = TRUE,
                                               !.writes = @ + 1,
                                               !.closed = TRUE],
                                    "nil")]
           \/ \* NewStream succeeds and the frame is written and flushed
              /\ CanOpen(n, fr.peerId)
              /\ send' = [send EXCEPT ![n] =
                             Return([fr EXCEPT !.opened = TRUE,
                                               !.writes = @ + 1,
                                               !.delivered = TRUE,
                                               !.closed = TRUE],
                                    "nil")]
    /\ UNCHANGED << configVars, startupVars, directoryVars, connected,
                    exchangeVars, dht, resolved, used >>
    /\ UNCHANGED << inboundVars, closeState, pureVars >>

\* a faulty variant, which the property of the stale entries must tell from
\* the code: a Send that turns to the DHT when its loop has run out
SendExhausted_Refresh(n) ==
    /\ Ready(n)
    /\ send[n].pc = "loop"
    /\ send[n].i >= NUM_CONNECT_ATTEMPTS
    /\ send[n].lookups = 0
    /\ send' = [send EXCEPT ![n] = [@ EXCEPT !.pc = "dht"]]
    /\ UNCHANGED << configVars, startupVars, directoryVars, connected,
                    exchangeVars, dht, resolved, used >>
    /\ UNCHANGED << inboundVars, closeState, pureVars >>

\* line 395: the loop has run out
SendExhausted(n) ==
    /\ Ready(n)
    /\ send[n].pc = "loop"
    /\ send[n].i >= NUM_CONNECT_ATTEMPTS
    /\ send' = [send EXCEPT ![n] = Return(@, "nil")]
    /\ UNCHANGED << configVars, startupVars, directoryVars, connected,
                    exchangeVars, dht, resolved, used >>
    /\ UNCHANGED << inboundVars, closeState, pureVars >>

(***************************************************************************)
(* Close.                                                                  *)
(***************************************************************************)
\* what NewMessageService has set up on a service it has returned
Installed(n) ==
    {"transport", "msgHandler", "peerInfoHandler"}
    \cup (IF useMdns[n] THEN {"mdns"} ELSE {"dht", "notifiee"})

\* the connection sets once the host of n is closed
Drop(c, n) == [q \in Nodes |-> IF q = n THEN {} ELSE c[q] \ {n}]

\* lines 404-414
Close(n) ==
    /\ Ready(n)
    /\ \/ \* ms.mdns.Close returns an error, and Close returns it
          /\ useMdns[n]
          /\ closeState' = [closeState EXCEPT ![n] =
                               [@ EXCEPT !.called = TRUE,
                                         !.result = "ErrMdns"]]
          /\ UNCHANGED << phase, connected >>
       \/ \* the mDNS service, if there is one, is closed, the handler of
          \* PROTOCOL_ID removed and the host closed
          /\ \E result \in {"nil", "ErrHost"} :
                closeState' = [closeState EXCEPT ![n] =
                    [called |-> TRUE, result |-> result,
                     removed |-> @.removed
                        \cup (IF useMdns[n] THEN {"mdns"} ELSE {})
                        \cup {"msgHandler", "transport"}]]
          /\ phase' = [phase EXCEPT ![n] = "closed"]
          /\ connected' = Drop(connected, n)
    /\ UNCHANGED << configVars, bootIdx, ticks, published, directoryVars,
                    exchangeVars, dht, resolved, send, inboundVars, pureVars,
                    used >>

(***************************************************************************)
(* The specification.                                                      *)
(***************************************************************************)
Startup ==
    \/ \E n \in Nodes : NewMessageService(n)
    \/ \E n \in Nodes : SetStreamHandler(n)
    \/ \E n \in Nodes : setupMdns(n)
    \/ \E n \in Nodes : setupDht(n)
    \/ \E n \in Nodes : addBootPeer(n)
    \/ \E n \in Nodes : Tick(n)

Network ==
    \/ \E n \in Nodes, p \in PeerIds : Connected(n, p)
    \/ \E n \in Nodes, p \in PeerIds : Disconnected(n, p)

Exchange ==
    \/ \E n \in Nodes, p \in PeerIds : HandlePeerFound(n, p)
    \/ \E n \in Nodes, p \in PeerIds : sendPeerInfoExpectingResponse(n, p)
    \/ \E t \in BagToSet(goSend) : sendPeerInfo(t)
    \/ \E n \in Nodes, x \in Remotes : \E f \in RemoteFrames(n) :
           RemoteFrame(n, x, f)
    \/ \E f \in BagToSet(frames) : receivePeerInfo(f)
    \/ \E f \in BagToSet(notifying) : notifyNewPeer(f)
    \/ \E n \in Nodes : PeerInfoReceived(n)

Sending ==
    \/ \E n \in Callers, to \in Addrs : SendBegin(n, to)
    \/ \E n \in Nodes : getPeerIdFromDht(n)
    \/ \E n \in Nodes : SendAttempt(n)
    \/ \E n \in Nodes : SendExhausted(n)

\* start-up and the boot-peer wait
NextBoot == Startup \/ Network
SpecBoot == Init /\ [][NextBoot]_vars

\* the same, with the ticker of the wait (line 169) firing again and again
SpecBootLive == SpecBoot /\ \A n \in Nodes : WF_vars(Tick(n))

\* Send on a constructed service
NextSend == Network \/ Sending
SpecSend == InitSend /\ [][NextSend]_vars

\* the peer-info exchange between constructed services; a connection that is
\* lost only makes NewStream fail, which sendPeerInfo may do at any time
NextExchange ==
    \/ \E n \in Nodes, p \in PeerIds : Connected(n, p)
    \/ Exchange
SpecExchange == InitExchange /\ [][NextExchange]_vars

\* start-up, and Close on a service that was returned
NextClose ==
    \/ NextBoot
    \/ \E n \in Nodes : Close(n)
SpecClose == Init /\ [][NextClose]_vars

\* the messages that come in
NextInbound ==
    \/ \E n \in Nodes, in \in StreamInputs : MessageStream(n, in)
    \/ \E st \in BagToSet(msgStreams) : msgStreamHandler(st)
    \/ \E h \in BagToSet(pushing) : pushToEngine(h)
    \/ \E n \in Nodes : Out(n)
SpecInbound == InitInbound /\ [][NextInbound]_vars

\* start-up together with the exchange: the events of the network reach n1
\* while its NewMessageService is still at work; the remote peer writes its
\* own peer info
NextWire ==
    \/ Startup
    \/ \E n \in Nodes, p \in PeerIds : Connected(n, p)
    \/ \E n \in Nodes, p \in PeerIds : HandlePeerFound(n, p)
    \/ \E t \in BagToSet(goSend) : sendPeerInfo(t)
    \/ \E n \in Nodes, x \in Remotes, e \in BOOLEAN :
           RemoteFrame(n, x, Frame(n, [Id |-> x, Address |-> Address(x),
                                       ExpectResponse |-> e]))
    \/ \E f \in BagToSet(frames) : receivePeerInfo(f)
    \/ \E f \in BagToSet(notifying) : notifyNewPeer(f)
SpecWire == InitWire /\ [][NextWire]_vars

(***************************************************************************)
(* Send: the results of the retry loop.                                    *)
(***************************************************************************)
\* C1, as the specification states it: when Send finds the destination in the
\* Directory and every NewStream fails, it opens NUM_CONNECT_ATTEMPTS times,
\* sleeping after the failed attempts, and then returns a delivery-failure
\* error: never success and never the resolution error.
C1_ExhaustionReturnsDeliveryError ==
    \A n \in Nodes :
        (send[n].pc = "done" /\ send[n].found /\ ~send[n].opened) =>
            /\ send[n].opens = NUM_CONNECT_ATTEMPTS
            /\ send[n].sleeps \in {NUM_CONNECT_ATTEMPTS - 1,
                                   NUM_CONNECT_ATTEMPTS}
            /\ send[n].result \notin {"nil", "ErrResolve"}

\* C2, as the specification states it: Send returns success only if the
\* framed payload was written and flushed to a stream that opened; a failed
\* write or flush, or a loop that ran out, never ends in success.
C2_SuccessMeansDelivered ==
    \A n \in Nodes :
        (send[n].pc = "done" /\ send[n].result = "nil") =>
            send[n].opened /\ send[n].delivered

\* C3, as the specification states it: the first NewStream that succeeds ends
\* the loop: the framed payload is written once to that stream, the stream is
\* closed and Send returns success, with no further open or sleep; and Send
\* never opens more than NUM_CONNECT_ATTEMPTS times.
C3_FirstOpenDeliversAndCloses ==
    \A n \in Nodes :
        /\ send[n].opens <= NUM_CONNECT_ATTEMPTS
        /\ send[n].opened =>
              /\ send[n].pc = "done"
              /\ send[n].opens = send[n].sleeps + 1
              /\ send[n].writes = 1
              /\ send[n].delivered
              /\ send[n].closed
              /\ send[n].result = "nil"

(***************************************************************************)
(* Send: the lookup in the DHT.                                            *)
(***************************************************************************)
\* C4: on a service that has a DHT, a Send whose destination is neither in
\* the Directory nor in the DHT, or whose DHT get fails, returns the
\* resolution error: it opens no stream and enters nothing in the Directory;
\* and that error is not what a Send returns when its retry loop runs out.
C4_ResolutionError ==
    [][\A n \in Nodes :
          /\ (send[n].pc = "dht" /\ send'[n].pc = "done") =>
                /\ ~send[n].found
                /\ send'[n].result = "ErrResolve"
                /\ send'[n].opens = 0
                /\ send'[n].lookups = 1
                /\ peers' = peers
                /\ resolved' = resolved
          /\ ( /\ send[n].pc = "dht"
               /\ send'[n] # send[n]
               /\ ~useMdns[n]
               /\ dht[send[n].to] = NoRecord ) =>
                /\ send'[n].pc = "done"
                /\ send'[n].result = "ErrResolve"
          /\ (send[n].pc = "loop" /\ send'[n].pc = "done") =>
                send'[n].result # "ErrResolve"
      ]_vars

\* a Send to an address that no Directory and no DHT record knows has returned
\* the resolution error
C4_Witness ==
    \E n \in Nodes :
        /\ send[n].pc = "done"
        /\ send[n].result = "ErrResolve"
        /\ dht[send[n].to] = NoRecord
        /\ peers[n][send[n].to] = NoPeer
        /\ send[n].opens = 0

\* C5: a Send whose destination is missing from the Directory and whose DHT
\* get returns the record stores the record's peer id in the Directory and
\* goes on to deliver to it; a later Send to that address finds it in the
\* Directory and makes no DHT lookup.
C5_ResolutionIsCached ==
    [][\A n \in Nodes :
          /\ (send[n].pc = "dht" /\ send'[n].pc = "loop") =>
                /\ dht[send[n].to] # NoRecord
                /\ peers'[n][send[n].to] = dht[send[n].to].Data.PeerID
                /\ send'[n].peerId = dht[send[n].to].Data.PeerID
                /\ send'[n].to \in resolved'[n]
          /\ send'[n].pc = "dht" => send'[n].to \notin resolved'[n]
          /\ ( /\ used'.sends # used.sends
               /\ send'[n].pc = "loop"
               /\ send'[n].to \in resolved[n] ) =>
                /\ send'[n].found
                /\ send'[n].lookups = 0
                /\ send'[n].peerId = peers[n][send'[n].to]
                /\ send'[n].peerId = dht[send'[n].to].Data.PeerID
      ]_vars

\* a second Send to an address cached from the DHT is in its loop, or done,
\* without a lookup
C5_Witness ==
    \E n \in Nodes :
        /\ send[n].to \in resolved[n]
        /\ send[n].found
        /\ send[n].lookups = 0
        /\ send[n].opens > 0
        /\ send[n].peerId = dht[send[n].to].Data.PeerID

(***************************************************************************)
(* The peer-info exchange and the Directory.                               *)
(***************************************************************************)
\* how many members of the bag B are in the set S
RECURSIVE CountIn(_, _)
CountIn(B, S) ==
    IF S = {} THEN 0
    ELSE LET e == CHOOSE x \in S : TRUE
         IN  CopiesIn(e, B) + CountIn(B, S \ {e})

\* the handlers of node n that have entered address a and not yet pushed it
Announcing(n, a) ==
    CountIn(notifying,
            {f \in BagToSet(notifying) : f.to = n /\ f.msg.Address = a})

\* node n has read the frame that carries msg
Handled(n, msg) == BagIn(Frame(n, msg), handled)

\* the peer info of node p, as sendPeerInfo writes it
PeerInfo(p, expectResponse) ==
    [Id |-> p, Address |-> Address(p), ExpectResponse |-> expectResponse]

\* x's peer info asking for a reply has reached y, y's peer info has reached
\* x, and no handler of either is still at work
RoundTripDone(x, y) ==
    /\ Handled(y, PeerInfo(x, TRUE))
    /\ Handled(x, PeerInfo(y, FALSE))
    /\ \A f \in BagToSet(notifying) : f.to \notin {x, y}

\* C6: once a node's peer info with ExpectResponse = true has been handled by
\* another node and that node's peer info has been handled by the first, each
\* Directory has an entry for the other's address and each node has pushed
\* exactly one value for it on newPeerInfo, however many frames for that
\* address its handlers have read at once; at no time is an address pushed
\* twice.
C6_RoundTripFillsBothDirectories ==
    /\ \A n \in Nodes, a \in Addrs :
          emitted[n][a] + Announcing(n, a) =
              IF peers[n][a] # NoPeer THEN 1 ELSE 0
    /\ \A x \in Nodes : \A y \in Nodes \ {x} :
          RoundTripDone(x, y) =>
              /\ peers[y][Address(x)] # NoPeer
              /\ peers[x][Address(y)] # NoPeer
              /\ emitted[y][Address(x)] = 1
              /\ emitted[x][Address(y)] = 1

\* a round trip is over at a node that has read two frames for the other's
\* address
C6_Witness ==
    \E x \in Nodes : \E y \in Nodes \ {x} :
        /\ RoundTripDone(x, y)
        /\ Handled(y, PeerInfo(x, FALSE))
        /\ emitted[y][Address(x)] = 1
        /\ emitted[x][Address(y)] = 1

\* the frames node n has read that ask for a reply
AskedOf(n) ==
    CountIn(handled,
            {f \in BagToSet(handled) : f.to = n /\ f.msg.ExpectResponse})

\* the replies of node n that are still to run: the started sendPeerInfo
\* calls, and the handlers that push their new peer first
RepliesDue(n) ==
    CountIn(goSend,
            {t \in BagToSet(goSend) : t.node = n /\ t.origin = "reply"})
    + CountIn(notifying,
              {f \in BagToSet(notifying) :
                  f.to = n /\ f.msg.ExpectResponse})

\* C7: for every frame with ExpectResponse = true that a node handles, its
\* handler calls sendPeerInfo once, to the peer id the frame names and with
\* ExpectResponse = false (the call writes the reply if it can open a stream);
\* for a frame with ExpectResponse = false the handler calls nothing.  So the
\* replies a node has made and has yet to make are as many as the asking
\* frames it has handled, and no reply asks for a reply.
C7_NoPingPong ==
    /\ \A n \in Nodes : replyCalls[n] + RepliesDue(n) = AskedOf(n)
    /\ \A t \in BagToSet(goSend) :
          t.origin = "reply" =>
              /\ ~t.expectResponse
              /\ \E f \in BagToSet(handled) :
                    /\ f.to = t.node
                    /\ f.msg.ExpectResponse
                    /\ f.msg.Id = t.to

\* a node has answered an asking frame, and its answer has been handled
\* without a further reply
C7_Witness ==
    \E n \in Nodes : \E m \in Nodes \ {n} :
        /\ Handled(n, PeerInfo(m, TRUE))
        /\ replyCalls[n] = 1
        /\ Handled(m, PeerInfo(n, FALSE))
        /\ replyCalls[m] = 0
        /\ RepliesDue(m) = 0
        /\ RepliesDue(n) = 0

\* C8: when a handler reads a frame for an address the Directory already
\* holds, whatever peer id the frame names, the Directory is left as it is
\* and nothing is pushed on newPeerInfo, by that handler or later: only the
\* reply, if the frame asks for one, is started.
C8_KnownAddressIsKept ==
    [][\A f \in {FrameFrom(p, Frame(n, msg)) :
                    n \in Nodes, p \in PeerIds, msg \in PeerExchangeMessages} :
          ( /\ handled' = handled (+) SetToBag({f})
            /\ peers[f.to][f.msg.Address] # NoPeer ) =>
              /\ peers' = peers
              /\ notifying' = notifying
              /\ newPeerInfo' = newPeerInfo
              /\ emitted' = emitted
              /\ goSend' = goSend (+) Reply(f.to, f.msg)
      ]_vars

\* a node has read frames that name two peer ids for one address, and has
\* pushed that address once
C8_Witness ==
    \E n \in Nodes, f \in BagToSet(handled), g \in BagToSet(handled) :
        /\ f.to = n /\ g.to = n
        /\ f.msg.Address = g.msg.Address
        /\ f.msg.Id # g.msg.Id
        /\ emitted[n][f.msg.Address] = 1
        /\ Announcing(n, f.msg.Address) = 0

\* C9, as the specification states it: when the Directory maps A to I and a
\* handler reads a frame that names J # I for A, the entry is overwritten
\* to J.
C9_EntryIsOverwritten ==
    [][\A f \in {FrameFrom(p, Frame(n, msg)) :
                    n \in Nodes, p \in PeerIds, msg \in PeerExchangeMessages} :
          ( /\ handled' = handled (+) SetToBag({f})
            /\ peers[f.to][f.msg.Address] \notin {NoPeer, f.msg.Id} ) =>
              peers'[f.to][f.msg.Address] = f.msg.Id
      ]_vars

\* C9, amended: an entry of the Directory is never overwritten and never
\* deleted by the exchange; after a frame that names J # I for A the
\* Directory still maps A to I, which is what Send loads for A.
C9_EntryIsKept ==
    [][\A n \in Nodes, a \in Addrs :
          peers[n][a] # NoPeer =>
              /\ peers'[n][a] = peers[n][a]
              /\ Load(peers'[n], a) = [value |-> peers[n][a], ok |-> TRUE]
      ]_vars

\* a node has read a frame that names another peer id than its Directory
\* holds for the address
C9_Witness ==
    \E f \in BagToSet(handled) :
        /\ f.json = "object"
        /\ peers[f.to][f.msg.Address] \notin {NoPeer, f.msg.Id}
        /\ Load(peers[f.to], f.msg.Address).ok

(***************************************************************************)
(* The wait for the boot peers.                                            *)
(***************************************************************************)
\* C10: with N > 0 boot peers, setupDht stays in its wait while a poll finds
\* fewer than N connected peers; the poll that finds N or more ends the wait
\* and calls addScaddrDhtRecord, once; nothing is published and the service
\* is not returned before that; and while N or more peers stay connected the
\* ticker brings that poll about.
C10_QuorumWait ==
    [][\A n \in Nodes :
          LET N == Len(bootPeers[n])
              actual == Cardinality(connected[n])
          IN  /\ (phase[n] = "waiting" /\ phase'[n] # "waiting") =>
                    /\ actual >= N
                    /\ published'[n] = 1
              /\ (phase[n] = "waiting" /\ actual >= N
                    /\ <<phase[n], ticks[n], published[n]>> #
                       <<phase'[n], ticks'[n], published'[n]>>) =>
                    /\ phase'[n] # "waiting"
                    /\ ticks'[n] = ticks[n]
              /\ ticks'[n] # ticks[n] =>
                    /\ actual < N
                    /\ phase'[n] = "waiting"
                    /\ published'[n] = 0
              /\ published'[n] # published[n] =>
                    /\ phase[n] = "waiting"
                    /\ published[n] = 0
              /\ (N > 0 /\ phase'[n] = "ready") => published'[n] = 1
              /\ (N > 0 /\ phase'[n] \in {"new", "discovery", "addBootPeers",
                                          "host", "waiting"}) =>
                    published'[n] = 0
      ]_vars
    /\ \A n \in Nodes :
          (phase[n] = "waiting"
             /\ Cardinality(connected[n]) >= Len(bootPeers[n]))
          ~> (phase[n] # "waiting"
                \/ Cardinality(connected[n]) < Len(bootPeers[n]))

\* a node with two boot peers has polled with too few connected, and has then
\* ended its wait and published
C10_Witness ==
    \E n \in Nodes :
        /\ Len(bootPeers[n]) = 2
        /\ ticks[n] >= 1
        /\ phase[n] = "ready"
        /\ published[n] = 1

(***************************************************************************)
(* Start-up: boot peers, publication, failures.                            *)
(***************************************************************************)
\* the configured boot peers of node n
BootPeerSet(n) == {bootPeers[n][k] : k \in 1..Len(bootPeers[n])}

\* C11, as the specification states it: when the wait for the boot peers
\* ends, at least as many of the configured boot peers are connected as are
\* configured.
C11_WaitEndsOnBootPeerConnections ==
    [][\A n \in Nodes :
          (phase[n] = "waiting" /\ phase'[n] # "waiting") =>
              Cardinality(connected[n] \cap BootPeerSet(n)) >=
                  Len(bootPeers[n])
      ]_vars

\* C12, as the specification states it: a boot peer that cannot be dialled
\* does not end the start-up nor the dialling of the boot peers after it, and
\* to every boot peer it has dialled the node sends its peer info with
\* ExpectResponse = true.
C12_BootPeersAreAskedForReply ==
    [][\A n \in Nodes :
          (phase[n] = "addBootPeers" /\ bootIdx'[n] = bootIdx[n] + 1) =>
              LET p == bootPeers[n][bootIdx'[n]]
              IN  /\ phase'[n] =
                        IF bootIdx'[n] < Len(bootPeers[n])
                        THEN "addBootPeers" ELSE "waiting"
                  /\ (p \notin connected[n] /\ p \in connected'[n]) =>
                        \E t \in BagToSet(goSend') :
                            /\ t.node = n
                            /\ t.to = p
                            /\ t.expectResponse
                            /\ CopiesIn(t, goSend') > CopiesIn(t, goSend)
      ]_vars

\* C13, as the specification states it: a service in DHT mode that is
\* returned to its caller has published its record, with boot peers and
\* without.
C13_RecordIsPublishedInBothCases ==
    \A n \in Nodes :
        (~useMdns[n] /\ phase[n] = "ready") => published[n] = 1

Rank(ph) ==
    CASE ph = "new" -> 0
      [] ph = "host" -> 1
      [] ph = "discovery" -> 2
      [] ph = "addBootPeers" -> 3
      [] ph = "waiting" -> 4
      [] ph = "ready" -> 5
      [] ph = "panicked" -> 6
      [] ph = "closed" -> 7

\* C15, as the specification states it: the start-up never steps backwards,
\* a start-up that has failed is never returned as ready, and a failure of
\* any step before ready, the publication of the node's record among them,
\* aborts the start-up.
C15_FailureAbortsStartup ==
    [][\A n \in Nodes :
          /\ Rank(phase'[n]) >= Rank(phase[n])
          /\ (published'[n] # published[n]
                /\ dht'[Address(n)].Data.PeerID # n) =>
                phase'[n] = "panicked"
      ]_vars

(***************************************************************************)
(* The message handler and the inbound queue.                              *)
(***************************************************************************)
\* the handlers of node n that hold the decoded message m at line 266
Holding(n, m) == CopiesIn([to |-> n, m |-> m], pushing)

\* the well-formed records
WireMessages == {Serialize(m) : m \in Messages}

\* C16: the message handler reads one record from its stream.  The end of
\* file, a read error or a record that does not decode pushes nothing and
\* leaves the service as it was, able to handle the streams that follow; a
\* record that decodes gives one handler holding its message, and that
\* handler puts the message on ms.toEngine once: what has been read and
\* decoded is what has been pushed and what is still held.
C16_MessageHandler ==
    [][/\ \A st \in [to : Nodes, in : StreamInputs] :
            ( /\ BagIn(st, msgStreams)
              /\ CopiesIn(st, msgStreams') = CopiesIn(st, msgStreams) - 1 ) =>
                /\ phase' = phase
                /\ toEngine' = toEngine
                /\ msgStats'[st.to].read =
                      msgStats[st.to].read (+) SetToBag({st.in})
                /\ IF st.in.err = "nil" /\ st.in.raw \in WireMessages
                   THEN \E m \in Messages :
                          /\ Serialize(m) = st.in.raw
                          /\ pushing' =
                               pushing (+) SetToBag({[to |-> st.to, m |-> m]})
                   ELSE pushing' = pushing
       /\ \A n \in Nodes, m \in Messages :
            /\ Holding(n, m)' < Holding(n, m) =>
                  /\ Holding(n, m)' = Holding(n, m) - 1
                  /\ toEngine'[n] = Append(toEngine[n], m)
            /\ CopiesIn([raw |-> Serialize(m), err |-> "nil"],
                        msgStats'[n].read)
                 = CopiesIn(m, msgStats'[n].pushed) + Holding(n, m)'
      ]_vars

\* a node has read a record that does not decode and a stream that was
\* closed, and has pushed a message
C16_Witness ==
    \E n \in Nodes :
        /\ \/ BagIn([raw |-> <<"garbage">>, err |-> "nil"], msgStats[n].read)
           \/ BagIn([raw |-> <<>>, err |-> "EOF"], msgStats[n].read)
        /\ msgStats[n].pushed # EmptyBag
        /\ phase[n] = "ready"

\* C17: ms.toEngine never holds more than BUFFER_SIZE messages; while it
\* holds BUFFER_SIZE a handler with a decoded message stays at its send, and
\* goes through only after the engine has taken a message; the queue holds
\* what it held at first and what was pushed, less what was taken: no
\* message is lost and none is there twice.
C17_BoundedQueue ==
    [][\A n \in Nodes :
          /\ Len(toEngine'[n]) <= BUFFER_SIZE
          /\ Len(toEngine'[n]) =
                msgStats'[n].initial + BagCardinality(msgStats'[n].pushed)
                  - msgStats'[n].taken
          /\ Len(toEngine[n]) = BUFFER_SIZE =>
                /\ msgStats'[n].pushed = msgStats[n].pushed
                /\ \A m \in Messages : Holding(n, m)' >= Holding(n, m)
          /\ \A m \in Messages :
                CopiesIn([raw |-> Serialize(m), err |-> "nil"],
                         msgStats'[n].read)
                  = CopiesIn(m, msgStats'[n].pushed) + Holding(n, m)'
      ]_vars

\* the queue was full with two handlers at their send; the engine has taken
\* one message, one handler has gone through and the other still waits
C17_Witness ==
    \E n \in Nodes :
        /\ msgStats[n].initial = BUFFER_SIZE
        /\ msgStats[n].taken = 1
        /\ BagCardinality(msgStats[n].pushed) = 1
        /\ Len(toEngine[n]) = BUFFER_SIZE
        /\ \E m \in Messages : Holding(n, m) = 1

(***************************************************************************)
(* Frames that are no peer info.                                           *)
(***************************************************************************)
\* C18, as the specification states it: when a handler reads a frame that is
\* not the JSON of a peerExchangeMessage, the JSON value null among them, it
\* returns: the service goes on, the Directory is as it was and nothing is
\* pushed on newPeerInfo.
C18_MalformedFrameIsDropped ==
    [][\A f \in {FrameFrom(x, MalformedFrame(n, json)) :
                    n \in Nodes, x \in Remotes, json \in {"null", "garbage"}} :
          handled' = handled (+) SetToBag({f}) =>
              /\ phase' = phase
              /\ peers' = peers
              /\ notifying' = notifying
              /\ newPeerInfo' = newPeerInfo
              /\ emitted' = emitted
      ]_vars

(***************************************************************************)
(* Close.                                                                  *)
(***************************************************************************)
\* C19, as the specification states it: once Close has been called, in
\* either mode and whatever it returned, the transport is closed, the
\* message handler and the peer-info handler are removed and the discovery
\* (mDNS, or the DHT with its connection notification) is taken down.
C19_CloseTakesEverythingDown ==
    \A n \in Nodes :
        closeState[n].called => Installed(n) \subseteq closeState[n].removed

(***************************************************************************)
(* The connection notification.                                            *)
(***************************************************************************)
\* C20: whenever a connection is made at a node whose notification is
\* registered, by its own dial of a boot peer, by the network or by the dial
\* of a remote peer, one call sendPeerInfo(peer, false) is started for it and
\* none is run in the same step: the notification returns and the frame is
\* written by the started call.  No such call is started without a new
\* connection, and none asks for a reply.
C20_OneHandshakePerConnection ==
    [][/\ \A n \in Nodes, p \in PeerIds :
            (p \notin connected[n] /\ p \in connected'[n]) =>
                LET t == Task(n, p, FALSE, "connected")
                IN  /\ CopiesIn(t, goSend') =
                          CopiesIn(t, goSend)
                            + (IF NotifyInstalled(n) THEN 1 ELSE 0)
                    /\ \A f \in BagToSet(frames') :
                          f.msg.Id = n =>
                              CopiesIn(f, frames') = CopiesIn(f, frames)
                    /\ replyCalls' = replyCalls
       /\ \A t \in BagToSet(goSend') :
            t.origin = "connected" =>
                /\ ~t.expectResponse
                /\ CopiesIn(t, goSend') > CopiesIn(t, goSend) =>
                      /\ CopiesIn(t, goSend') = CopiesIn(t, goSend) + 1
                      /\ NotifyInstalled(t.node)
                      /\ t.to \notin connected[t.node]
                      /\ t.to \in connected'[t.node]
      ]_vars

\* a node has dialled its boot peer and has been connected to by another
\* peer, and a call is started for each
C20_Witness ==
    \E n \in Nodes :
        /\ BootPeerSet(n) # {}
        /\ \A p \in BootPeerSet(n) :
              BagIn(Task(n, p, FALSE, "connected"), goSend)
        /\ \E q \in PeerIds \ BootPeerSet(n) :
              BagIn(Task(n, q, FALSE, "connected"), goSend)

(***************************************************************************)
(* Local mode: peers found by mDNS.                                        *)
(***************************************************************************)
\* the goroutines that were started run on: of the sendPeerInfo calls that
\* were started one runs, of the frames on the streams one is read, and of
\* the handlers at their channel send one goes through once the channel has
\* room
HandlersGoOn ==
    /\ WF_vars(\E t \in BagToSet(goSend) : sendPeerInfo(t))
    /\ WF_vars(\E f \in BagToSet(frames) : receivePeerInfo(f))
    /\ WF_vars(\E f \in BagToSet(notifying) : notifyNewPeer(f))

\* NewMessageService has returned on both nodes, both in mDNS mode
InitLocal ==
    /\ InitExchange
    /\ useMdns = [n \in Nodes |-> TRUE]

\* the exchange between services in mDNS mode; the calls that sendPeerInfo,
\* receivePeerInfo and the channel send have begun go on, while mDNS finds a
\* peer when it does
SpecLocal ==
    /\ InitLocal
    /\ [][NextExchange]_vars
    /\ HandlersGoOn

\* C21, as the specification states it: in mDNS mode every peer found starts
\* one sendPeerInfo(peer, false); the peer, when the connection that results
\* appears at its end, starts its own sendPeerInfo back; and once the peer has
\* read the node's peer info, the node's Directory comes to hold the
\* peer's address as the peer's holds the node's.
C21_LocalReciprocity ==
    /\ [][\A x \in Nodes : \A y \in Nodes \ {x} :
             /\ (useMdns[x] /\ y \notin connected[x] /\ y \in connected'[x]) =>
                   \E t \in BagToSet(goSend') :
                       /\ t.node = x
                       /\ t.to = y
                       /\ ~t.expectResponse
                       /\ CopiesIn(t, goSend') > CopiesIn(t, goSend)
          ]_vars
    /\ \A x \in Nodes : \A y \in Nodes \ {x} :
          (useMdns[x] /\ useMdns[y] /\ Handled(y, PeerInfo(x, FALSE)))
            ~> ( /\ peers[y][Address(x)] # NoPeer
                 /\ peers[x][Address(y)] # NoPeer )

(***************************************************************************)
(* Send: entries of the Directory that have gone stale.                    *)
(***************************************************************************)
\* C22: a Send that finds an entry for its destination in the Directory
\* makes no DHT lookup, also when every one of its NUM_CONNECT_ATTEMPTS opens
\* has failed; a lookup is made only by a Send that found no entry, and a
\* Send is at its lookup only while the Directory has no entry.
C22_StaleEntryIsNotRefreshed ==
    [][\A n \in Nodes :
          /\ send'[n].found => send'[n].lookups = 0
          /\ send'[n].lookups # send[n].lookups =>
                \/ send'[n].lookups = 0
                \/ /\ ~send[n].found
                   /\ peers[n][send[n].to] = NoPeer
          /\ send'[n].pc = "dht" =>
                /\ ~send'[n].found
                /\ peers'[n][send'[n].to] = NoPeer
          /\ ( /\ used'.sends # used.sends
               /\ send'[n] # send[n]
               /\ peers[n][send'[n].to] # NoPeer
               /\ send'[n].result # "ErrSerialize" ) =>
                /\ send'[n].found
                /\ send'[n].pc = "loop"
                /\ send'[n].peerId = peers[n][send'[n].to]
      ]_vars

\* a Send has found its destination in the Directory, has failed to open
\* NUM_CONNECT_ATTEMPTS times and has returned without a lookup
C22_Witness ==
    \E n \in Nodes :
        /\ send[n].pc = "done"
        /\ send[n].found
        /\ ~send[n].opened
        /\ send[n].opens = NUM_CONNECT_ATTEMPTS
        /\ send[n].lookups = 0

(***************************************************************************)
(* Framing: what is written to a stream and what is read from it.          *)
(***************************************************************************)
\* lines 279-283: json.Marshal of a peerExchangeMessage; the peer id is
\* written in base 58 and the address in hexadecimal, as one token each
MarshalPeerInfo(msg) ==
    <<"{", msg.Id, msg.Address,
      IF msg.ExpectResponse THEN "true" ELSE "false", "}">>

\* lines 317-322: json.Unmarshal into `var msg *peerExchangeMessage`
UnmarshalPeerInfo(raw) ==
    LET t == TrimSpace(raw)
    IN  IF t = <<"null">>
        THEN [err |-> FALSE, nil |-> TRUE, msg |-> NilMessage]
        ELSE IF /\ Len(t) = 5
                /\ t[1] = "{" /\ t[5] = "}"
                /\ t[2] \in PeerIds /\ t[3] \in Addrs
                /\ t[4] \in {"true", "false"}
        THEN [err |-> FALSE, nil |-> FALSE,
              msg |-> [Id |-> t[2], Address |-> t[3],
                       ExpectResponse |-> t[4] = "true"]]
        ELSE [err |-> TRUE, nil |-> TRUE, msg |-> NilMessage]

\* the values that are framed, and what may follow a frame on its stream
FramedValues ==
    {[kind |-> "message", value |-> m] : m \in AllMessages}
    \cup {[kind |-> "peerInfo", value |-> msg] : msg \in PeerExchangeMessages}

Followers == {<<>>, <<"{">>, <<DELIMITER>>}

Marshal(fv) ==
    IF fv.kind = "message" THEN Serialize(fv.value)
                           ELSE MarshalPeerInfo(fv.value)

\* lines 291 and 382: the writer writes the serialized value and the
\* delimiter
WriteString(fv, next) ==
    /\ framing.pc = "idle"
    /\ framing' = [pc |-> "written", kind |-> fv.kind, value |-> fv.value,
                   next |-> next,
                   stream |-> Framed(Marshal(fv)) \o next]
    /\ UNCHANGED << configVars, startupVars, directoryVars, connected,
                    exchangeVars, dht, resolved, send, inboundVars,
                    closeState, now, checked, transfer, auth,
                    used >>

\* lines 251-261 and 306-318: the reader reads up to the delimiter and
\* decodes what it has read
ReadFrame ==
    /\ framing.pc = "written"
    /\ LET r == ReadString(framing.stream, DELIMITER)
       IN  framing' =
              [framing EXCEPT
                  !.pc = "read",
                  !.stream = r.rest] @@
              [raw |-> r.raw,
               decoded |-> IF framing.kind = "message"
                           THEN LET d == DeserializeMessage(r.raw)
                                IN  [err |-> d.err, value |-> d.m]
                           ELSE LET u == UnmarshalPeerInfo(r.raw)
                                IN  [err |-> u.err \/ u.nil,
                                     value |-> u.msg]]
    /\ UNCHANGED << configVars, startupVars, directoryVars, connected,
                    exchangeVars, dht, resolved, send, inboundVars,
                    closeState, now, checked, transfer, auth,
                    used >>

NextFraming ==
    \/ \E fv \in FramedValues, next \in Followers : WriteString(fv, next)
    \/ ReadFrame
SpecFraming == InitExchange /\ [][NextFraming]_vars

SignedRecords ==
    {DhtRecord(data, Sign(Key(data.PeerID), data)) : data \in DhtData}

\* whatever may be put before the validator
Signatures == [signer : {Key(p) : p \in PeerIds}, data : DhtData]
AllRecords == [Data : DhtData, Signature : Signatures] \cup SignedRecords

\* in how many places two records differ
Differences(r, q) ==
    LET d(x, y) == IF x = y THEN 0 ELSE 1
    IN  d(r.Data.SCAddr, q.Data.SCAddr)
        + d(r.Data.PeerID, q.Data.PeerID)
        + d(r.Data.Timestamp, q.Data.Timestamp)
        + d(r.Signature.signer, q.Signature.signer)
        + d(r.Signature.data.SCAddr, q.Signature.data.SCAddr)
        + d(r.Signature.data.PeerID, q.Signature.data.PeerID)
        + d(r.Signature.data.Timestamp, q.Signature.data.Timestamp)

\* a signed record with one place changed
Tampered(value) == \E r \in SignedRecords : Differences(r, value) = 1

\* the DHT calls Validate on a record it was given
ValidateCall(key, value) ==
    /\ checked.pc = "idle"
    /\ checked' = [pc |-> "validated", key |-> key, values |-> <<value>>,
                   ok |-> Validate(key, value), index |-> 0]
    /\ UNCHANGED << configVars, startupVars, directoryVars, connected,
                    exchangeVars, dht, resolved, send, inboundVars,
                    closeState, framing, now, transfer, auth,
                    used >>

\* the DHT calls Select on two records, both valid, that it holds for a key
SelectCall(key, values) ==
    /\ checked.pc = "idle"
    /\ \A i \in 1..Len(values) : Validate(key, values[i])
    /\ checked' = [pc |-> "selected", key |-> key, values |-> values,
                   ok |-> TRUE, index |-> Select(key, values)]
    /\ UNCHANGED << configVars, startupVars, directoryVars, connected,
                    exchangeVars, dht, resolved, send, inboundVars,
                    closeState, framing, now, transfer, auth,
                    used >>

NextValidator ==
    \/ \E key \in Addrs, value \in AllRecords : ValidateCall(key, value)
    \/ \E key \in Addrs, v \in SignedRecords, w \in SignedRecords :
           SelectCall(key, <<v, w>>)
\* the validator belongs to the DHT of services in DHT mode
InitValidator ==
    /\ InitExchange
    /\ useMdns = [n \in Nodes |-> FALSE]

SpecValidator == InitValidator /\ [][NextValidator]_vars

\* C24: the validator accepts every record that a key has signed, for
\* whatever address; it rejects every such record with one place changed, in
\* what the record says or in its signature; and of two valid records with
\* different timestamps it selects the later, whichever comes first.
C24_RecordValidator ==
    /\ checked.pc = "validated" =>
          LET value == checked.values[1]
          IN  /\ value \in SignedRecords => checked.ok
              /\ Tampered(value) => ~checked.ok
    /\ checked.pc = "selected" =>
          LET v == checked.values[1]
              w == checked.values[2]
          IN  /\ checked.index \in {1, 2}
              /\ v.Data.Timestamp < w.Data.Timestamp => checked.index = 2
              /\ v.Data.Timestamp > w.Data.Timestamp => checked.index = 1

\* the validator has selected the later of two records of one peer for one
\* address, the later coming first
C24_Witness ==
    /\ checked.pc = "selected"
    /\ checked.values[1].Data.Timestamp > checked.values[2].Data.Timestamp
    /\ checked.values[1].Data.PeerID = checked.values[2].Data.PeerID
    /\ checked.values[1].Data.SCAddr = checked.values[2].Data.SCAddr
    /\ checked.index = 1

(***************************************************************************)
(* The DHT: the records that are put and the records that are got.         *)
(***************************************************************************)
\* n1 is about to be constructed, in mDNS mode or in DHT mode with n2 as its
\* boot peer; n2 is a constructed service in DHT mode; the clock is at its
\* first second
InitStore ==
    /\ InitWire
    /\ now = 1

\* a second passes
Clock ==
    /\ now < MaxTime
    /\ now' = now + 1
    /\ UNCHANGED << configVars, startupVars, directoryVars, connected,
                    exchangeVars, dht, resolved, send, inboundVars,
                    closeState, framing, checked, transfer, auth,
                    used >>

\* the records a remote peer can make: whatever it says, signed with its key
RemoteRecords(x) == {DhtRecord(data, Sign(Key(x), data)) : data \in DhtData}

\* a remote peer puts a record of its making under the key of an address
RemotePut(x, key, value) ==
    /\ used.puts < MaxPuts
    /\ used' = [used EXCEPT !.puts = @ + 1]
    /\ dht' = PutValue(dht, key, value).dht
    /\ UNCHANGED << configVars, startupVars, directoryVars, connected,
                    exchangeVars, resolved, send, inboundVars, closeState,
                    pureVars >>

\* the start-up of a node while the clock goes and remote peers put records
NextStore ==
    \/ Startup
    \/ Clock
    \/ \E x \in Remotes, key \in Addrs : \E value \in RemoteRecords(x) :
           RemotePut(x, key, value)
SpecStore == InitStore /\ [][NextStore]_vars

\* C25: when setupDht publishes, the DHT is left as it was (PutValue has
\* failed) or it holds, under the key of the node's own address and nowhere
\* else, a new record: it names the node's address, the peer id of the
\* node's key and the second of the clock, it is signed with the node's key
\* over these three, and the public key of the peer id it names verifies it.
C25_PublishedRecord ==
    [][\A n \in Nodes :
          published'[n] # published[n] =>
              \/ dht' = dht
              \/ \E r \in SignedRecords :
                    /\ dht' = [dht EXCEPT ![Address(n)] = r]
                    /\ r.Data = [SCAddr |-> Address(n), PeerID |-> Id(Key(n)),
                                 Timestamp |-> now]
                    /\ r.Signature.signer = Key(n)
                    /\ r.Signature.data = r.Data
                    /\ Verify(r.Data.PeerID, r.Data, r.Signature)
                    /\ Validate(Address(n), r)
      ]_vars

\* a node has published after the clock has gone on, and the DHT holds its
\* record with the later time
C25_Witness ==
    \E n \in Nodes :
        /\ published[n] = 1
        /\ now > 1
        /\ dht[Address(n)] = OwnRecord(n, now)
        /\ dht[Address(n)] # DhtAtFirst[Address(n)]

(***************************************************************************)
(* The DHT: what a lookup takes from a record.                             *)
(***************************************************************************)
\* both services are constructed in DHT mode, n2 with its record published
\* or not
InitLookup ==
    /\ InitSend
    /\ useMdns = [n \in Nodes |-> FALSE]

\* Send on a constructed service while remote peers put records
NextLookup ==
    \/ \E x \in Remotes, key \in Addrs : \E value \in RemoteRecords(x) :
           RemotePut(x, key, value)
    \/ Sending
SpecLookup == InitLookup /\ [][NextLookup]_vars

\* C30, as the specification states it: when a lookup for address A enters a
\* peer id in the Directory, the record it was taken from names A as its
\* address.
C30_LookupBindsAddress ==
    [][\A n \in Nodes :
          (send[n].pc = "dht" /\ send'[n].pc = "loop") =>
              /\ peers'[n][send[n].to] = dht[send[n].to].Data.PeerID
              /\ dht[send[n].to].Data.SCAddr = send[n].to
      ]_vars

(***************************************************************************)
(* Send in mDNS mode.                                                      *)
(***************************************************************************)
\* C26, as the specification states it: on a service in mDNS mode a Send
\* whose destination is not in the Directory returns the resolution error:
\* the service goes on and no stream is opened.
C26_LocalSendMissReturnsError ==
    [][\A n \in Nodes :
          (useMdns[n] /\ send[n].pc = "dht" /\ send'[n] # send[n]) =>
              /\ send'[n].pc = "done"
              /\ send'[n].result = "ErrResolve"
              /\ send'[n].opens = 0
              /\ phase'[n] = phase[n]
      ]_vars

(***************************************************************************)
(* The peer-info exchange: whose peer id a frame binds.                    *)
(***************************************************************************)
\* C27, as the specification states it: when a handler enters (A, I) in the
\* Directory, I is the peer at the other end of the stream the frame came on,
\* and the reply it starts, if any, goes to that peer.
C27_HandshakeBindsRemotePeer ==
    [][\A f \in {FrameFrom(p, Frame(n, msg)) :
                    n \in Nodes, p \in PeerIds, msg \in PeerExchangeMessages} :
          handled' = handled (+) SetToBag({f}) =>
              /\ peers'[f.to][f.msg.Address] # peers[f.to][f.msg.Address] =>
                    peers'[f.to][f.msg.Address] = f.from
              /\ \A t \in BagToSet(goSend') :
                    ( /\ t.origin = "reply"
                      /\ CopiesIn(t, goSend') > CopiesIn(t, goSend) ) =>
                        t.to = f.from
      ]_vars

(***************************************************************************)
(* The notifications of the peers that are discovered.                     *)
(***************************************************************************)
\* C28, as the specification states it: for every address that is in a
\* node's Directory, entered by a handler of the exchange or by a DHT lookup
\* of Send, one value has been pushed on newPeerInfo or is held by the
\* handler that is about to push it, and never more than one.
C28_EveryEntryIsAnnouncedOnce ==
    \A n \in Nodes, a \in Addrs :
        emitted[n][a] + Announcing(n, a) =
            IF peers[n][a] # NoPeer THEN 1 ELSE 0

(***************************************************************************)
(* The exchange with a caller that does not read PeerInfoReceived().       *)
(***************************************************************************)
\* the peers that node n1 has announced before, k of them
Earlier(k) == [i \in 1..k |-> [Id |-> <<"peer", i>>, Address |-> <<"addr", i>>]]

\* NewMessageService has returned on both nodes; the caller of n1 has left
\* none, all but one or all of the places of ms.newPeerInfo filled
InitNotify ==
    /\ useMdns = [n \in Nodes |-> FALSE]
    /\ bootPeers = [n \in Nodes |-> <<>>]
    /\ phase = [n \in Nodes |-> "ready"]
    /\ bootIdx = [n \in Nodes |-> 0]
    /\ ticks = [n \in Nodes |-> 0]
    /\ published = [n \in Nodes |-> 0]
    /\ peers = [n \in Nodes |-> [a \in Addrs |-> NoPeer]]
    /\ \E k \in {0, BUFFER_SIZE - 1, BUFFER_SIZE} :
          newPeerInfo = [n \in Nodes |-> IF n = "n1" THEN Earlier(k) ELSE <<>>]
    /\ emitted = [n \in Nodes |-> [a \in Addrs |-> 0]]
    /\ connected = [n \in Nodes |-> {}]
    /\ frames = EmptyBag
    /\ notifying = EmptyBag
    /\ goSend = EmptyBag
    /\ handled = EmptyBag
    /\ replyCalls = [n \in Nodes |-> 0]
    /\ dht = DhtAtFirst
    /\ resolved = [n \in Nodes |-> {}]
    /\ send = [n \in Nodes |-> NoSend]
    /\ InboundIdle
    /\ closeState = [n \in Nodes |-> NotClosed]
    /\ PureIdle
    /\ used = NothingUsed

\* the exchange while no caller takes from PeerInfoReceived()
NextNotify ==
    \/ \E n \in Nodes, p \in PeerIds : Connected(n, p)
    \/ \E n \in Nodes, p \in PeerIds : sendPeerInfoExpectingResponse(n, p)
    \/ \E t \in BagToSet(goSend) : sendPeerInfo(t)
    \/ \E n \in Nodes, x \in Remotes : \E f \in RemoteFrames(n) :
           RemoteFrame(n, x, f)
    \/ \E f \in BagToSet(frames) : receivePeerInfo(f)
    \/ \E f \in BagToSet(notifying) : notifyNewPeer(f)
SpecNotify == InitNotify /\ [][NextNotify]_vars /\ HandlersGoOn

\* the handlers of node n that are at their channel send with a frame that
\* asks for a reply
Asking(n) ==
    CountIn(notifying,
            {f \in BagToSet(notifying) : f.to = n /\ f.msg.ExpectResponse})

\* C29, as the specification states it: a handler that has read a frame
\* with ExpectResponse = true for an address new to the Directory comes to
\* start its reply, whether or not ms.newPeerInfo has room: no handler stays
\* at its channel send for ever.
C29_ReplyDespiteFullQueue ==
    \A n \in Nodes :
        (Asking(n) > 0)
          ~> (Asking(n) = 0 /\ replyCalls[n] + RepliesDue(n) > 0)

(***************************************************************************)
(* ComputeTransferEffectsAndInteractions (package outcome).  A big.Int is  *)
(* a place in memory: heap gives the value at each place.  The amounts of  *)
(* the caller's allocations are at <<"in", i>>, those of newAllocations    *)
(* and exitAllocations at <<"new", i>> and <<"exit", i>>.  Positions and   *)
(* indices count from 0 as in the code.  Of an Allocation only the Amount  *)
(* is modelled.                                                            *)
(***************************************************************************)
\* the values a big.Int argument takes: the type is signed
Amounts == -1..MaxAmount
\* allocations Allocations, by amount
AllAllocations == UNION {[1..l -> Amounts] : l \in 0..MaxAllocations}
\* indices []uint, increasing; the last value is beyond every position
AllIndices ==
    {ix \in UNION {[1..l -> 0..MaxAllocations] : l \in 0..MaxAllocations + 1} :
        \A j \in 1..Len(ix) - 1 : ix[j] < ix[j + 1]}

\* min returns the minimum of the supplied integers as a new big.Int
min(a, b) == IF a < b THEN a ELSE b

\* the place of newAllocations[i].Amount when it shares the caller's big.Int
AmountCell_Shared(i) == << "in", i >>

\* the place of newAllocations[i].Amount: *big.NewInt(0).Set(...) is a new
\* big.Int
AmountCell(i) == << "new", i >>

Cells(l) == {"in", "new", "exit"} \X (0..l - 1)

\* the call: k is 0, surplus is a copy of initialHoldings, make() gives
\* newAllocations and exitAllocations of zero Allocations
TransferCall(initialHoldings, allocations, indices) ==
    /\ transfer.pc = "idle"
    /\ transfer' =
         [pc |-> "loop",
          initialHoldings |-> initialHoldings,
          allocations |-> allocations,
          indices |-> indices,
          k |-> 0,
          i |-> 0,
          surplus |-> initialHoldings,
          heap |-> [c \in Cells(Len(allocations)) |->
                      IF c[1] = "in" THEN allocations[c[2] + 1] ELSE 0]]
    /\ UNCHANGED << configVars, startupVars, directoryVars, connected,
                    exchangeVars, dht, resolved, send, inboundVars,
                    closeState, framing, now, checked, auth, used >>

\* one pass of the loop body, for position transfer.i
TransferStep ==
    /\ transfer.pc = "loop"
    /\ transfer.i < Len(transfer.allocations)
    /\ LET i == transfer.i
           k == transfer.k
           indices == transfer.indices
           copied == [transfer.heap EXCEPT
                         ![AmountCell(i)] = transfer.heap[<< "in", i >>]]
           affordsForDestination == min(copied[<< "in", i >>],
                                        transfer.surplus)
           paid == [copied EXCEPT
                       ![AmountCell(i)] = @ - affordsForDestination,
                       ![<< "exit", i >>] = affordsForDestination]
       IN  transfer' =
             [transfer EXCEPT
                 !.heap = IF \/ Len(indices) = 0
                             \/ (k < Len(indices) /\ indices[k + 1] = i)
                          THEN paid
                          ELSE copied,
                 !.surplus = @ - affordsForDestination,
                 !.i = i + 1]
    /\ UNCHANGED << configVars, startupVars, directoryVars, connected,
                    exchangeVars, dht, resolved, send, inboundVars,
                    closeState, framing, now, checked, auth, used >>

\* the loop is over: return
TransferReturn ==
    /\ transfer.pc = "loop"
    /\ transfer.i = Len(transfer.allocations)
    /\ transfer' = [transfer EXCEPT !.pc = "returned"]
    /\ UNCHANGED << configVars, startupVars, directoryVars, connected,
                    exchangeVars, dht, resolved, send, inboundVars,
                    closeState, framing, now, checked, auth, used >>

\* the results of the call, read where the slices point
newAllocations(i) == transfer.heap[AmountCell(i)]
exitAllocations(i) == transfer.heap[<< "exit", i >>]

NextTransfer ==
    \/ /\ transfer.pc = "idle"
       /\ \E initialHoldings \in Amounts, allocations \in AllAllocations,
             indices \in AllIndices :
              TransferCall(initialHoldings, allocations, indices)
    \/ TransferStep
    \/ TransferReturn

\* the function is called from a node's engine; the services stand by
InitTransfer ==
    /\ InitExchange
    /\ useMdns = [n \in Nodes |-> FALSE]

SpecTransfer == InitTransfer /\ [][NextTransfer]_vars

\* the surplus that the statement gives for position i: initialHoldings less
\* the least of amount and surplus at every position before i
RECURSIVE SurplusBefore(_)
SurplusBefore(i) ==
    IF i = 0
    THEN transfer.initialHoldings
    ELSE LET s == SurplusBefore(i - 1)
             a == transfer.allocations[i]
         IN  s - (IF a < s THEN a ELSE s)

\* position i is one that the call is to pay out
Listed(i) ==
    \/ transfer.indices = << >>
    \/ \E j \in 1..Len(transfer.indices) : transfer.indices[j] = i

\* C31: ComputeTransferEffectsAndInteractions pays out exactly the listed
\* indices: in the loop the surplus is initialHoldings less min(amount,
\* surplus) for every position passed; at the return every listed position
\* (every position when indices is empty) has the exit amount min(amount,
\* surplus before it) and a new amount smaller by that, and every other
\* position has the exit amount 0 and its original amount.
C31_PaysOutTheListedIndices ==
    /\ transfer.pc # "idle" => transfer.surplus = SurplusBefore(transfer.i)
    /\ transfer.pc = "returned" =>
          \A i \in 0..Len(transfer.allocations) - 1 :
             LET a == transfer.allocations[i + 1]
                 s == SurplusBefore(i)
                 due == IF a < s THEN a ELSE s
             IN  IF Listed(i)
                 THEN /\ exitAllocations(i) = due
                      /\ newAllocations(i) = a - due
                 ELSE /\ exitAllocations(i) = 0
                      /\ newAllocations(i) = a

\* the sum of the exit amounts of the positions before i
RECURSIVE ExitSum(_)
ExitSum(i) == IF i = 0 THEN 0 ELSE ExitSum(i - 1) + exitAllocations(i - 1)

\* neither the holdings nor an amount of the call is negative
NonNegativeInputs ==
    /\ transfer.initialHoldings >= 0
    /\ \A i \in 1..Len(transfer.allocations) : transfer.allocations[i] >= 0

\* the caller's allocations are as they were at the call, and at the return
\* every position has new amount + exit amount = original amount, no amount
\* is negative, and the exit amounts sum to initialHoldings at most
FundsConserved ==
    /\ \A i \in 0..Len(transfer.allocations) - 1 :
          transfer.heap[<< "in", i >>] = transfer.allocations[i + 1]
    /\ transfer.pc = "returned" =>
          /\ \A i \in 0..Len(transfer.allocations) - 1 :
                /\ newAllocations(i) + exitAllocations(i)
                     = transfer.allocations[i + 1]
                /\ newAllocations(i) >= 0
                /\ exitAllocations(i) >= 0
          /\ ExitSum(Len(transfer.allocations)) <= transfer.initialHoldings

\* C32: ComputeTransferEffectsAndInteractions conserves funds when neither
\* initialHoldings nor an allocation amount is negative: at each position
\* the new amount plus the exit amount is the original amount, no amount is
\* negative, the exit amounts sum to initialHoldings at most, and the
\* caller's allocations are not changed at any step of the call.
C32_ConservesFunds ==
    (transfer.pc # "idle" /\ NonNegativeInputs) => FundsConserved

\* the same for every input, a negative initialHoldings or amount included
C32_ConservesFundsForEveryInput ==
    transfer.pc # "idle" => FundsConserved

\* a call has returned that paid the first allocation in full and the second
\* in part, and used up the holdings
C32_Witness ==
    /\ transfer.pc = "returned"
    /\ NonNegativeInputs
    /\ Len(transfer.allocations) = MaxAllocations
    /\ transfer.initialHoldings > 0
    /\ ExitSum(Len(transfer.allocations)) = transfer.initialHoldings
    /\ exitAllocations(0) = transfer.allocations[1]
    /\ exitAllocations(0) > 0
    /\ exitAllocations(1) > 0
    /\ newAllocations(1) > 0

(***************************************************************************)
(* The tokens of the RPC server (package rpc).  A token string is taken    *)
(* by what it decodes to: nothing (it is not a JWT), or a signing method,  *)
(* the claims and the key that made the signature.  Signatures are ideal:  *)
(* one verifies under the key that made it and no other.                   *)
(***************************************************************************)
\* var rpcPK, and a key that is not the server's
rpcPK == "rpcPK"
Keys == {rpcPK, "otherKey"}

permNone == "none"
permRead == "read"
permSign == "sign"
allPermissions == << permRead, permSign >>
RequiredPermissions == {permNone, permRead, permSign}

errInvalidSigningMethod == "invalid signing method"
errInvalidToken == "invalid token"
errInvalidPermissions == "token has invalid permissions"
errInvalidPermission == "token has an invalid permission"
errMissingPermission == "token is missing permission"
\* the errors of jwt.Parse itself
ErrTokenMalformed == "token is malformed"
ErrTokenSignatureInvalid == "token signature is invalid"
ErrTokenExpired == "token is expired"
nil == "nil"

\* a JSON value of a permission list: a string, or a value of another type
JsonString(sp) == [type |-> "string", value |-> sp]
JsonNumber == [type |-> "number", value |-> "7"]
ListEntries == {JsonString(permRead), JsonString(permSign), JsonNumber}
\* claims["perm"] after decoding: absent, a string, or a list
NoPermClaim == [type |-> "absent", items |-> << >>]
StringPermClaim == [type |-> "string", items |-> << >>]
ListPermClaim(items) == [type |-> "list", items |-> items]
PermClaims ==
    {NoPermClaim, StringPermClaim}
      \cup {ListPermClaim(items) :
              items \in UNION {[1..l -> ListEntries] : l \in 0..MaxPerms}}

\* what a token string decodes to
Jwt(alg, perm, iat, exp, key) ==
    [jwt |-> TRUE, alg |-> alg,
     claims |-> [perm |-> perm, iat |-> iat, sub |-> "client", exp |-> exp],
     key |-> key]
\* a string that is not a JWT: the empty string, or text without the dots
NotAJwt(text) ==
    [jwt |-> FALSE, alg |-> text,
     claims |-> [perm |-> NoPermClaim, iat |-> 0, sub |-> "", exp |-> "absent"],
     key |-> "otherKey"]
TokenStrings ==
    {NotAJwt(text) : text \in {"", "garbage"}}
      \cup {Jwt(alg, perm, iat, exp, key) :
              alg \in {"HS256", "RS256", "none"}, perm \in PermClaims,
              iat \in Times, exp \in {"absent", "past"}, key \in Keys}

\* the lists of permissions a token is generated for
PermissionLists ==
    UNION {[1..l -> {permRead, permSign}] : l \in 0..MaxPerms}

\* generateAuthToken: HS256, the claims perm, iat and sub, signed with rpcPK
generateAuthToken(p, t) ==
    Jwt("HS256",
        ListPermClaim([j \in 1..Len(p) |-> JsonString(p[j])]),
        t, "absent", rpcPK)

\* jwt.Parse with the key function of checkTokenValidity: the string is
\* split and decoded, the key function refuses a method that is not HMAC,
\* the signature is verified with rpcPK, the time claims are validated
Parse(tokenString) ==
    IF ~tokenString.jwt THEN [Valid |-> FALSE, err |-> ErrTokenMalformed]
    ELSE IF tokenString.alg # "HS256"
    THEN [Valid |-> FALSE, err |-> errInvalidSigningMethod]
    ELSE IF tokenString.key # rpcPK
    THEN [Valid |-> FALSE, err |-> ErrTokenSignatureInvalid]
    ELSE IF tokenString.claims.exp = "past"
    THEN [Valid |-> FALSE, err |-> ErrTokenExpired]
    ELSE [Valid |-> TRUE, err |-> nil]

\* the loop over the permissions, were an entry that is not a string passed
\* over
RECURSIVE checkPermissions_SkipInvalid(_, _)
checkPermissions_SkipInvalid(permissions, requiredPermission) ==
    IF permissions = << >> THEN errMissingPermission
    ELSE IF Head(permissions) = JsonString(requiredPermission) THEN nil
    ELSE checkPermissions_SkipInvalid(Tail(permissions), requiredPermission)

\* the loop over the permissions of the token
RECURSIVE checkPermissions(_, _)
checkPermissions(permissions, requiredPermission) ==
    IF permissions = << >> THEN errMissingPermission
    ELSE IF Head(permissions).type # "string" THEN errInvalidPermission
    ELSE IF Head(permissions).value = requiredPermission THEN nil
    ELSE checkPermissions(Tail(permissions), requiredPermission)

checkTokenValidity(tokenString, requiredPermission) ==
    IF requiredPermission = permNone THEN nil
    ELSE LET token == Parse(tokenString)
         IN  IF token.err # nil THEN token.err
             ELSE IF ~token.Valid THEN errInvalidToken
             ELSE IF tokenString.claims.perm.type # "list"
             THEN errInvalidPermissions
             ELSE checkPermissions(tokenString.claims.perm.items,
                                   requiredPermission)

\* the server makes a token for a list of permissions
GenerateCall(p) ==
    /\ auth.pc = "idle"
    /\ auth' = [pc |-> "generated", p |-> p,
                tokenString |-> generateAuthToken(p, now),
                requiredPermission |-> permNone, err |-> nil]
    /\ UNCHANGED << configVars, startupVars, directoryVars, connected,
                    exchangeVars, dht, resolved, send, inboundVars,
                    closeState, framing, now, checked, transfer, used >>

\* a request comes with the token that was generated
CheckGenerated(requiredPermission) ==
    /\ auth.pc = "generated"
    /\ auth' = [auth EXCEPT
                   !.pc = "checked",
                   !.requiredPermission = requiredPermission,
                   !.err = checkTokenValidity(auth.tokenString,
                                              requiredPermission)]
    /\ UNCHANGED << configVars, startupVars, directoryVars, connected,
                    exchangeVars, dht, resolved, send, inboundVars,
                    closeState, framing, now, checked, transfer, used >>

\* a request comes with a token string of the client's making
CheckCall(tokenString, requiredPermission) ==
    /\ auth.pc = "idle"
    /\ auth' = [pc |-> "checked", p |-> << >>,
                tokenString |-> tokenString,
                requiredPermission |-> requiredPermission,
                err |-> checkTokenValidity(tokenString, requiredPermission)]
    /\ UNCHANGED << configVars, startupVars, directoryVars, connected,
                    exchangeVars, dht, resolved, send, inboundVars,
                    closeState, framing, now, checked, transfer, used >>

NextAuth ==
    \/ /\ auth.pc = "idle"
       /\ \E p \in PermissionLists : GenerateCall(p)
    \/ \E requiredPermission \in RequiredPermissions :
           CheckGenerated(requiredPermission)
    \/ /\ auth.pc = "idle"
       /\ \E tokenString \in TokenStrings,
             requiredPermission \in RequiredPermissions :
              CheckCall(tokenString, requiredPermission)
    \/ /\ auth.pc = "idle"
       /\ Clock

\* the RPC server stands beside a constructed node
InitAuth ==
    /\ InitExchange
    /\ useMdns = [n \in Nodes |-> FALSE]

SpecAuth == InitAuth /\ [][NextAuth]_vars

\* the token of the call is one that generateAuthToken makes for auth.p
Generated ==
    \E t \in Times : auth.tokenString = generateAuthToken(auth.p, t)

\* the token is a JWT whose HMAC signature verifies under the server key
SignedByServer(tokenString) ==
    /\ tokenString.jwt
    /\ tokenString.alg = "HS256"
    /\ tokenString.key = rpcPK

\* the permission list of the token contains the permission
Contains(tokenString, requiredPermission) ==
    /\ tokenString.claims.perm.type = "list"
    /\ \E j \in 1..Len(tokenString.claims.perm.items) :
          tokenString.claims.perm.items[j] = JsonString(requiredPermission)

\* the permission list of the token has the permission at a place with only
\* strings before it
ContainsBeforeInvalid(tokenString, requiredPermission) ==
    /\ tokenString.claims.perm.type = "list"
    /\ \E j \in 1..Len(tokenString.claims.perm.items) :
          /\ tokenString.claims.perm.items[j] = JsonString(requiredPermission)
          /\ \A h \in 1..j - 1 :
                tokenString.claims.perm.items[h].type = "string"

\* a token generated for 'read' alone is refused 'sign' for the missing
\* permission, and a token generated for a list is accepted for each of its
\* permissions
GeneratedTokensWork ==
    (auth.pc = "checked" /\ Generated) =>
        /\ (/\ auth.p # << >>
            /\ \A j \in 1..Len(auth.p) : auth.p[j] = permRead
            /\ auth.requiredPermission = permSign)
              => auth.err = errMissingPermission
        /\ (\E j \in 1..Len(auth.p) : auth.p[j] = auth.requiredPermission)
              => auth.err = nil

====
